---- MODULE Spec2Model ----
(***************************************************************************)
(* State-machine model of the acquisition / encode / archive pipeline of   *)
(* RETSPy-WebTools (src/src/downloader.js, src/src/logging.js).            *)
(*                                                                         *)
(*   Spec      FileDownloader.download and ImageDownloader.download: the   *)
(*             concurrent batch fetch, the raster re-encoding, the archive *)
(*             build and the save.                                         *)
(*   FairSpec  Spec with the fairness of the JavaScript event loop.        *)
(*   AnimSpec  one Animator: run(), doCapture() at any time, the animation *)
(*             frames and the recorder's stop task.                        *)
(*   VideoSpec VideoDownloader.download: the image batch, the Animator it  *)
(*             creates, and the save of the recorded video.                *)
(*   ArchSpec  FileArchiver.save called directly on any entries.           *)
(*   LoaderSpec ImageLoader.load called directly, on image elements that   *)
(*             may fire more than one event.                               *)
(*   SaverSpec FileSaver.save called directly on any content.              *)
(*   StoreSpec one LoggerStore: records pushed into it and its queries.    *)
(*   ZipSpec   zip and unzip of src/src/common.js applied to two arrays.    *)
(*   ChainSpec the sequential script-loader chain of src/src/content.js.   *)
(***************************************************************************)
EXTENDS Integers, Sequences, FiniteSets, TLC

(***************************************************************************)
(* Bounds of the model.                                                    *)
(***************************************************************************)
\* Longest input sequence of (url, filename) pairs.
MaxN == 2
\* Longest image sequence of an Animator created directly.
MaxL == 3
\* The clock (document.timeline.currentTime) is followed up to MaxTime.
MaxTime == 12
\* Longest time between two animation frames.
MaxDt == 2
\* Longest array given to zip.
MaxLen == 3
\* Longest chain of script loads.
MaxScripts == 3
\* Most calls of doCapture on one Animator.
MaxRequests == 2
\* The largest number of entries given to FileArchiver.save directly.
MaxEntries == 2
\* The largest number of events one image element fires.
MaxEvents == 2
\* The largest number of direct calls of FileSaver.save.
MaxSaves == 2
\* The largest number of records in a LoggerStore that is queried.
MaxRecords == 2
\* The largest number of pieces (relation-level pairs, other text) of a
\* level specification.
MaxPairs == 2

(***************************************************************************)
(* Program constants.                                                      *)
(***************************************************************************)
MODULE_FILENAME == "downloader.js"
README_TXT == "README.txt"
RETSPY_LOG == "RETSPY.log"
\* FileSaver.#revokeTimeout, in milliseconds.
revokeTimeout == 5000

(***************************************************************************)
(* Inputs.                                                                 *)
(***************************************************************************)
\* The (url, filename) pairs a caller may pass: item[1] is the URL and
\* item[2] the filename (item[0] and item[1] in the source).
Items == {<<"https://x/1.jpg", "1.jpg">>, <<"https://x/2.jpg", "2.jpg">>}

SeqsUpTo(S, n) == UNION {[1..k -> S] : k \in 0..n}

\* The element of a singleton set.
The(S) == CHOOSE x \in S : TRUE

\* The readme text: absent ("" is falsy) or present.
Readmes == {"", "R"}

\* The name the archive is saved under.
ArchiveName == "archive.zip"

\* The name a video is saved under.
VideoName == "video.webm"

(***************************************************************************)
(* The state.                                                              *)
(***************************************************************************)
VARIABLES
  kind,        \* which top-level call runs: "file" | "image" | "video" |
               \* "animator" | "archiver" | "loader"
  sequence,    \* its input sequence of (url, filename) pairs
  readme,      \* its readme argument
  type,        \* its type argument: the raster or video type asked for
  log0,        \* the records the module's log held when the call began
  log,         \* logger.store.#logs, the module-wide diagnostic log
  fpc,         \* per fetch: "transport" | "blob" | "loading" | "done"
  response,    \* per fetch: the status of the response received (0: none)
  event,       \* per fetch: what ended it: "network" | "http" | "decode" |
               \* "ok" | "load" | "error" | "abort" ("": still running)
  fired,       \* per image: the events its element has fired, in order
  loaders,     \* per fetch: the promise #fetch returned
  settled,     \* the fetches in the order in which their promises settled
  batch,       \* the promise Promise.all(loaders) returned
  pc,          \* the download: "getData" | "generate" | "done" | "rejected"
  encodeFailed,\* the positions of the batch whose encoding threw
  archived,    \* the entries handed to FileArchiver.save
  zipfile,     \* the JSZip instance #createZip returned
  content,     \* the blob generateAsync resolved to
  outcome,     \* the object FileSaver.save returned
  saved,       \* the calls of FileSaver.save so far: content, filename, result
  objectURLs,  \* the object URLs FileSaver created, with their release timer
  query,       \* the query of the LoggerStore whose result the caller holds
  common,      \* zip / unzip of common.js: the arrays given and the results
  chain        \* the script-loader chain of content.js

dlVars == <<kind, sequence, readme, type, log0, log, fpc, response, event,
            fired, loaders, settled, batch, pc, encodeFailed, archived, zipfile, content,
            outcome, saved, objectURLs, query, common, chain>>

VARIABLES
  now,          \* document.timeline.currentTime
  supported,    \* the media types MediaRecorder supports in this browser
  fps,          \* the frame rate the Animator was constructed with
  images,       \* Animator.#images
  lapse,        \* Animator.#lapse
  last,         \* Animator.#last
  lastDraw,     \* Animator.#lastDraw
  currentImage, \* Animator.#currentImage
  capturing,    \* Animator.#capturing
  captured,     \* Animator.#captured
  capture,      \* Animator.#capture
  mimeType,     \* Animator.#mimeType
  onCompletion, \* Animator.#onCompletion
  recorder,     \* Animator.#recorder: its state, media type, frames, chunks
  raf,          \* the number of animation-frame callbacks scheduled
  ran,          \* run() has been called
  thrown,       \* an exception escaped from #animate
  stopTask,     \* the recorder's stop task (dataavailable, stop) is queued
  completions,  \* the calls of the completion callback, with their blob
  requests,     \* the calls of doCapture so far
  drawLog,      \* per drawing tick: the frame drawn and what the tick did
  videoPromise  \* the promise VideoDownloader.#encodeVideo returned

anVars == <<now, supported, fps, images, lapse, last, lastDraw, currentImage,
            capturing, captured, capture, mimeType, onCompletion, recorder,
            raf, ran, thrown, stopTask, completions, requests, drawLog,
            videoPromise>>

vars == <<dlVars, anVars>>

N == Len(sequence)

(***************************************************************************)
(* common.js                                                               *)
(***************************************************************************)
\* The value of an array read past its end.
Undefined == "undefined"
\* array[i], with JavaScript's index from 0 kept as a position from 1.
At(array, i) == IF i \in 1..Len(array) THEN array[i] ELSE Undefined

\* Array.from({ length: Math.max(...lengths) }): Math.max of no number is
\* -Infinity, and the array made with that length is empty.
RECURSIVE MathMax(_, _)
MathMax(lengths, k) ==
  IF k > Len(lengths) THEN 0
  ELSE LET rest == MathMax(lengths, k + 1)
       IN IF lengths[k] > rest THEN lengths[k] ELSE rest

\* zip(...arrays): element i holds the i-th element of every array.
Zip(arrays) ==
  [i \in 1..MathMax([j \in 1..Len(arrays) |-> Len(arrays[j])], 1) |->
     [j \in 1..Len(arrays) |-> At(arrays[j], i)]]

\* The loops of unzip from item k on: every value of the item is pushed
\* onto the result of its position.
RECURSIVE UnzipLoop(_, _, _)
UnzipLoop(zipped_array, k, result) ==
  IF k > Len(zipped_array) THEN result
  ELSE UnzipLoop(zipped_array, k + 1,
                 [i \in 1..Len(result) |->
                    IF i <= Len(zipped_array[k])
                    THEN Append(result[i], zipped_array[k][i])
                    ELSE result[i]])

\* Faulty variant of Unzip: the items are copied as they are.
UnzipNoTranspose(zipped_array) == zipped_array

\* unzip(zipped_array): as many empty arrays as the longest item has
\* values, filled by the loops.
Unzip(zipped_array) ==
  UnzipLoop(zipped_array, 1,
            [i \in 1..MathMax([k \in 1..Len(zipped_array) |->
                                 Len(zipped_array[k])], 1) |-> <<>>])

(***************************************************************************)
(* content.js: the chain loader().then(load a).then(load b)...catch(...).  *)
(* The chain is a record: urls, the scripts to load in order; k, the step  *)
(* whose reaction runs next; pc, "then" (the reaction of step k is ready), *)
(* "wait" (the script of step k is appended and has fired nothing yet),    *)
(* "rejected" (a promise of the chain is rejected and the catch handler is *)
(* ready), "done"; appended, the script elements appended to the target;   *)
(* events, the event each script fired; console, the messages written;     *)
(* caught, the errors the catch handler received.                          *)
(***************************************************************************)
\* InjectionTarget.#load(url), called by the reaction of step k: the script
\* element is created and appended, the promise returned is pending.
Load(c, url) ==
  [c EXCEPT !.appended = Append(@, url), !.pc = "wait"]

\* The load listener of #load: #onLoad writes to the console and the
\* promise resolves with the load function, so the next reaction is ready.
LoadListener(c, url) ==
  [c EXCEPT !.events = Append(@, "load"),
            !.console = Append(@, <<"loaded", url>>),
            !.pc = "then", !.k = @ + 1]

\* Faulty variant of ErrorListener: the promise is resolved, not rejected.
ErrorListenerResolves(c, url) ==
  [c EXCEPT !.events = Append(@, "error"),
            !.console = Append(@, <<"unable to load", url>>),
            !.pc = "then", !.k = @ + 1]

\* The error listener of #load: #onError writes to the console and calls
\* reject(event); the rejection passes the later then-steps by.
ErrorListener(c, url) ==
  [c EXCEPT !.events = Append(@, "error"),
            !.console = Append(@, <<"unable to load", url>>),
            !.pc = "rejected"]

\* The catch handler of the chain: console.error(error).
CatchHandler(c) ==
  [c EXCEPT !.caught = Append(@, <<"error", c.urls[c.k]>>),
            !.console = Append(@, <<"error", c.urls[c.k]>>),
            !.pc = "done"]

(***************************************************************************)
(* logging.js                                                              *)
(***************************************************************************)
LEVELS == <<"DEBUG", "INFO", "WARN", "ERROR", "FATAL", "UNKNOWN">>
\* LEVELMAP = backdict(LEVELS): each level mapped to its index, from 0.
LEVELMAP == [l \in {LEVELS[k] : k \in 1..Len(LEVELS)} |->
               (CHOOSE k \in 1..Len(LEVELS) : LEVELS[k] = l) - 1]

\* Faulty variant of BuildLogEntry: the level is stored as it was given.
BuildLogEntryKeepsLevel(levelId, moduleId, errorCode, errorMessage) ==
  [code |-> errorCode, level |-> levelId, message |-> errorMessage,
   module |-> moduleId]

\* LoggerStore.#buildLogEntry: the record of one diagnostic.  The message
\* is kept as the value interpolated into it.
BuildLogEntry(levelId, moduleId, errorCode, errorMessage) ==
  [code |-> errorCode,
   level |-> IF \E k \in 1..Len(LEVELS) : LEVELS[k] = levelId
             THEN levelId ELSE "UNKNOWN",
   message |-> errorMessage,
   module |-> moduleId]

\* MODULE_FILENAME of logging.js.
LOGGING_FILENAME == "logging.js"

\* LoggerStore.#logLoggerError: the store reports its own errors as ERROR
\* records of logging.js.
LogLoggerError(logs, code, message) ==
  Append(logs, [code |-> code, level |-> "ERROR", message |-> message,
                module |-> LOGGING_FILENAME])

\* Faulty variant of Push: the record is put in front (unshift).
PushFront(logs, levelId, moduleId, errorCode, errorMessage) ==
  <<BuildLogEntry(levelId, moduleId, errorCode, errorMessage)>> \o logs

\* LoggerStore.push: the record is appended at the end.  For a level that
\* is not in LEVELS, #buildLogEntry first reports LS001.
Push(logs, levelId, moduleId, errorCode, errorMessage) ==
  Append(IF \E k \in 1..Len(LEVELS) : LEVELS[k] = levelId
         THEN logs ELSE LogLoggerError(logs, "LS001", levelId),
         BuildLogEntry(levelId, moduleId, errorCode, errorMessage))

\* Logger.debug / info / warn / error of the module's logger.
LogDebug(logs, code, message) == Push(logs, "DEBUG", MODULE_FILENAME, code, message)
LogInfo(logs, code, message) == Push(logs, "INFO", MODULE_FILENAME, code, message)
LogWarn(logs, code, message) == Push(logs, "WARN", MODULE_FILENAME, code, message)
LogError(logs, code, message) == Push(logs, "ERROR", MODULE_FILENAME, code, message)

\* LoggerStore.#defaultFormatter: one line of text per record.
DefaultFormatter(l) == <<l.level, l.module, l.code, l.message>>

\* LoggerStore.toString with the default (empty) header and footer: the
\* text is the sequence of formatted lines; the empty text is "".
LogToString(logs) == [k \in 1..Len(logs) |-> DefaultFormatter(logs[k])]

\* A level specification is a string; it is kept as the sequence of its
\* pieces: the characters "<", ">", "=", a level name, or other text ("x").
\* The levels the pattern of #buildLevelRange names.
PatternLevels == {"DEBUG", "INFO", "WARN", "ERROR", "FATAL"}
\* The relation the pattern reads from a character followed by "=".
WithEquals(c) == CASE c = "<" -> "<=" [] c = ">" -> ">=" [] OTHER -> "=="

\* levelSpec.matchAll(pattern) from position i on, as [relation, level]
\* items: at each position the pattern tries "<" or ">" before a level
\* name, then "<=", ">=" or "==" before a level name; it goes on after a
\* match, and one character further when there is none.
RECURSIVE MatchAll(_, _)
MatchAll(levelSpec, i) ==
  IF i > Len(levelSpec) THEN <<>>
  ELSE IF /\ i + 1 <= Len(levelSpec)
          /\ levelSpec[i] \in {"<", ">"}
          /\ levelSpec[i + 1] \in PatternLevels
       THEN <<<<levelSpec[i], levelSpec[i + 1]>>>>
              \o MatchAll(levelSpec, i + 2)
  ELSE IF /\ i + 2 <= Len(levelSpec)
          /\ levelSpec[i] \in {"<", "=", ">"}
          /\ levelSpec[i + 1] = "="
          /\ levelSpec[i + 2] \in PatternLevels
       THEN <<<<WithEquals(levelSpec[i]), levelSpec[i + 2]>>>>
              \o MatchAll(levelSpec, i + 3)
  ELSE MatchAll(levelSpec, i + 1)

\* Faulty variant of BuildLevelFilter: the inclusive relations are read as
\* the exclusive ones.
BuildLevelFilterExclusive(relation, levelId, level) ==
  CASE relation \in {"<", "<="} -> LEVELMAP[level] < LEVELMAP[levelId]
    [] relation \in {">", ">="} -> LEVELMAP[level] > LEVELMAP[levelId]
    [] relation = "==" -> level = levelId
    [] OTHER -> FALSE

\* LoggerStore.#buildLevelFilter(relation, levelId) applied to a level.
\* (The pattern yields none but these five relations, so the default
\* branch and its LS101 record are never reached.)
BuildLevelFilter(relation, levelId, level) ==
  CASE relation = "<" -> LEVELMAP[level] < LEVELMAP[levelId]
    [] relation = "<=" -> LEVELMAP[level] <= LEVELMAP[levelId]
    [] relation = ">" -> LEVELMAP[level] > LEVELMAP[levelId]
    [] relation = ">=" -> LEVELMAP[level] >= LEVELMAP[levelId]
    [] relation = "==" -> level = levelId
    [] OTHER -> FALSE

\* The loop of #buildLevelRange from item k on: the levels kept so far are
\* intersected with those the filter of the item accepts.
RECURSIVE LevelRangeLoop(_, _, _)
LevelRangeLoop(items, k, current) ==
  IF k > Len(items) THEN current
  ELSE LevelRangeLoop(items, k + 1,
         current \cap {LEVELS[j] : j \in {h \in 1..Len(LEVELS) :
            BuildLevelFilter(items[k][1], items[k][2], LEVELS[h])}})

\* LoggerStore.#buildLevelRange: the levels the specification selects, and
\* the store with the LS102 record when no item was found.
BuildLevelRange(logs, levelSpec) ==
  LET items == MatchAll(levelSpec, 1)
  IN IF Len(items) = 0
     THEN [levelIds |-> {},
           logs |-> LogLoggerError(logs, "LS102", "levelSpec")]
     ELSE [levelIds |-> LevelRangeLoop(items, 1,
                          {LEVELS[j] : j \in 1..Len(LEVELS)}),
           logs |-> logs]

\* Array.filter: the elements whose index is in keep, in their order.
RECURSIVE Filter(_, _, _)
Filter(logs, keep, k) ==
  IF k > Len(logs) THEN <<>>
  ELSE (IF k \in keep THEN <<logs[k]>> ELSE <<>>) \o Filter(logs, keep, k + 1)

\* LoggerStore.queryByLevel on a store with the records logs: the records
\* of the store it returns, and the records of the queried store after it.
QueryByLevel(logs, levelSpec) ==
  LET range == BuildLevelRange(logs, levelSpec)
  IN [logs |-> Filter(range.logs,
                      {k \in 1..Len(range.logs) :
                         range.logs[k].level \in range.levelIds}, 1),
      store |-> range.logs]

\* LoggerStore.queryByModuleId, likewise.  moduleIds is the array of the
\* identifiers asked for, kept as a set; the filter tests the code field
\* of each record.
QueryByModuleId(logs, moduleIds) ==
  [logs |-> Filter(logs, {k \in 1..Len(logs) : logs[k].code \in moduleIds}, 1),
   store |-> logs]

\* LoggerStore.queryByErrorCode, likewise; errorCodes is kept as a set.
QueryByErrorCode(logs, errorCodes) ==
  [logs |-> Filter(logs, {k \in 1..Len(logs) : logs[k].code \in errorCodes}, 1),
   store |-> logs]

\* A date that was not given (undefined).
NoDate == 0
\* LoggerStore.queryByDate, likewise.  The time of a record is taken to be
\* its position in the store (records are pushed one after the other), a
\* date is a position or NoDate.  Without dates the returned store is built
\* on the array of the queried store itself (shared); an inverted range is
\* reported as LS201 in the queried store.
QueryByDate(logs, begin, end) ==
  IF begin = NoDate /\ end = NoDate
  THEN [logs |-> logs, store |-> logs, shared |-> TRUE]
  ELSE IF begin = NoDate
  THEN [logs |-> Filter(logs, {k \in 1..Len(logs) : k <= end}, 1),
        store |-> logs, shared |-> FALSE]
  ELSE IF end = NoDate
  THEN [logs |-> Filter(logs, {k \in 1..Len(logs) : begin <= k}, 1),
        store |-> logs, shared |-> FALSE]
  ELSE IF begin <= end
  THEN [logs |-> Filter(logs, {k \in 1..Len(logs) : begin <= k /\ k <= end}, 1),
        store |-> logs, shared |-> FALSE]
  ELSE [logs |-> <<>>,
        store |-> LogLoggerError(logs, "LS201", "Invalid date range."),
        shared |-> FALSE]

(***************************************************************************)
(* Entries and promises.                                                   *)
(***************************************************************************)
\* "data" in entry
HasData(entry) == "data" \in DOMAIN entry

Pending == [state |-> "pending"]
Fulfilled(v) == [state |-> "fulfilled", value |-> v]
Rejected == [state |-> "rejected"]

\* Faulty variant of FetchCatch: the catch block logs and rethrows, so the promise
\* of #fetch rejects.
FetchCatchRethrows(src, filename, logs, network_error, decoding_error, message) ==
  [promise |-> Rejected,
   log |-> LogError(logs, "FD101", src)]

\* Faulty variant of FetchCatch: the record that tells the class of the
\* failure is not written.
FetchCatchNoDetail(src, filename, logs, network_error, decoding_error, message) ==
  [promise |-> Fulfilled([src |-> src, filename |-> filename]),
   log |-> LogError(logs, "FD101", src)]

\* Faulty variant of FetchCatch: the entry is returned with a data field
\* that holds nothing ({ src, filename, data } with data undefined).
FetchCatchUndefinedData(src, filename, logs, network_error, decoding_error, message) ==
  [promise |-> Fulfilled([src |-> src, filename |-> filename, data |-> <<>>]),
   log |-> LET l1 == LogError(logs, "FD101", src)
           IN IF network_error THEN LogDebug(l1, "FD104", message)
              ELSE IF decoding_error THEN LogDebug(l1, "FD103", message)
              ELSE LogDebug(l1, "FD102", message)]

\* Faulty variant of FetchCatch: the record of the class is written
\* before the record of the failure.
FetchCatchClassFirst(src, filename, logs, network_error, decoding_error, message) ==
  [promise |-> Fulfilled([src |-> src, filename |-> filename]),
   log |-> LogError(IF network_error THEN LogDebug(logs, "FD104", message)
                    ELSE IF decoding_error THEN LogDebug(logs, "FD103", message)
                    ELSE LogDebug(logs, "FD102", message),
                    "FD101", src)]

\* Faulty variant of FetchCatch: the flags are tested in the other order.
FetchCatchDecodingFirst(src, filename, logs, network_error, decoding_error, message) ==
  [promise |-> Fulfilled([src |-> src, filename |-> filename]),
   log |-> LET l1 == LogError(logs, "FD101", src)
           IN IF decoding_error THEN LogDebug(l1, "FD103", message)
              ELSE IF network_error THEN LogDebug(l1, "FD104", message)
              ELSE LogDebug(l1, "FD102", message)]

\* The catch block of FileDownloader.#fetch: the failure is logged with the
\* class the two flags give and the promise resolves to an entry without
\* data.
FetchCatch(src, filename, logs, network_error, decoding_error, message) ==
  [promise |-> Fulfilled([src |-> src, filename |-> filename]),
   log |-> LET l1 == LogError(logs, "FD101", src)
           IN IF network_error THEN LogDebug(l1, "FD104", message)
              ELSE IF decoding_error THEN LogDebug(l1, "FD103", message)
              ELSE LogDebug(l1, "FD102", message)]

\* Faulty variant of FetchSuccess: the status record is not written.
FetchSuccessNoStatus(src, filename, logs, status) ==
  [promise |-> Fulfilled([src |-> src, filename |-> filename,
                          data |-> <<"blob", src>>]),
   log |-> LogInfo(logs, "FD001", src)]

\* Faulty variant of FetchSuccess: every status is logged like a 200.
FetchSuccessInfoAlways(src, filename, logs, status) ==
  [promise |-> Fulfilled([src |-> src, filename |-> filename,
                          data |-> <<"blob", src>>]),
   log |-> LogInfo(LogInfo(logs, "FD001", src), "FD002", ToString(status))]

\* The success path of FileDownloader.#fetch after response.blob().
FetchSuccess(src, filename, logs, status) ==
  [promise |-> Fulfilled([src |-> src, filename |-> filename,
                          data |-> <<"blob", src>>]),
   log |-> LET l1 == LogInfo(logs, "FD001", src)
           IN IF status = 200 THEN LogInfo(l1, "FD002", ToString(status))
              ELSE LogWarn(l1, "FD003", ToString(status))]

\* What the transport of one fetch() call can produce: a failure of the
\* transport itself (no response), or a response with a status.
Statuses == {200, 203, 404}
TransportResults ==
  {[reached |-> FALSE, status |-> 0]}
    \cup {[reached |-> TRUE, status |-> st] : st \in Statuses}
\* Response.ok
ResponseOk(status) == status >= 200 /\ status <= 299

\* The resolve function of a promise settles it once: a call on a
\* promise that is already settled changes nothing.
PromiseResolve(promise, settlement) ==
  IF promise.state = "pending" THEN settlement ELSE promise

\* Faulty variant of ImageHandler: the error and abort handlers reject.
ImageHandlerRejects(src, filename, logs, ev) ==
  IF ev = "load"
  THEN [promise |-> Fulfilled([src |-> src, filename |-> filename,
                               data |-> <<"img", src>>]),
        log |-> LogInfo(logs, "IL001", src)]
  ELSE IF ev = "error"
  THEN [promise |-> Rejected, log |-> LogError(logs, "IL101", src)]
  ELSE [promise |-> Rejected, log |-> LogInfo(logs, "IL102", src)]

\* The handlers ImageLoader.#fetch registers for "load", "error", "abort".
ImageEvents == {"load", "error", "abort"}
ImageHandler(src, filename, logs, ev) ==
  IF ev = "load"
  THEN [promise |-> Fulfilled([src |-> src, filename |-> filename,
                               data |-> <<"img", src>>]),
        log |-> LogInfo(logs, "IL001", src)]
  ELSE IF ev = "error"
  THEN [promise |-> Fulfilled([src |-> src, filename |-> filename]),
        log |-> LogError(logs, "IL101", src)]
  ELSE [promise |-> Fulfilled([src |-> src, filename |-> filename]),
        log |-> LogInfo(logs, "IL102", src)]

\* Faulty variant of PromiseAll: the values are collected in the order in which
\* the loaders settled (a shared accumulator each fetch pushes to).
PromiseAllInSettleOrder(ps) ==
  IF \A i \in DOMAIN ps : ps[i].state = "fulfilled"
  THEN Fulfilled([k \in DOMAIN ps |-> ps[settled[k]].value])
  ELSE Pending

\* Faulty variant of PromiseAll: the batch returns as soon as one loader has
\* settled, with the values of the loaders fulfilled so far.
PromiseAllFirstSettled(ps) ==
  LET RECURSIVE Collect(_)
      Collect(k) ==
        IF k > Len(ps) THEN <<>>
        ELSE IF ps[k].state = "fulfilled" THEN <<ps[k].value>> \o Collect(k + 1)
        ELSE Collect(k + 1)
  IN IF Len(ps) = 0 \/ \E i \in DOMAIN ps : ps[i].state # "pending"
     THEN Fulfilled(Collect(1))
     ELSE Pending

\* Promise.all(loaders) as called by #getData and ImageLoader.load: it
\* rejects as soon as one loader has rejected, fulfils once every loader is
\* fulfilled, with the values in the order of the loaders, and is pending
\* otherwise.
PromiseAll(ps) ==
  IF \E i \in DOMAIN ps : ps[i].state = "rejected" THEN Rejected
  ELSE IF \A i \in DOMAIN ps : ps[i].state = "fulfilled"
  THEN Fulfilled([i \in DOMAIN ps |-> ps[i].value])
  ELSE Pending

(***************************************************************************)
(* ImageDownloader.#encodeData                                             *)
(***************************************************************************)
\* ImageDownloader.#encodeImage: the image re-encoded as a blob of the
\* target imageType.
EncodeImage(image, imageType) == <<"enc", image[2], imageType>>

\* Faulty variant of EncodeLoop: an encoded entry is put in front of the
\* entries collected so far.
RECURSIVE EncodeLoopUnshift(_, _, _, _, _, _)
EncodeLoopUnshift(es, k, imageType, fails, imageEntries, logs) ==
  IF k > Len(es) THEN [entries |-> imageEntries, log |-> logs]
  ELSE IF HasData(es[k])
  THEN IF k \notin fails
       THEN EncodeLoopUnshift(es, k + 1, imageType, fails,
                              <<[es[k] EXCEPT
                                   !.data = EncodeImage(es[k].data, imageType)]>>
                                \o imageEntries,
                              LogInfo(logs, "ID001", es[k].filename))
       ELSE EncodeLoopUnshift(es, k + 1, imageType, fails, imageEntries,
                              LogDebug(LogError(logs, "ID101", es[k].filename),
                                       "ID102", es[k].filename))
  ELSE EncodeLoopUnshift(es, k + 1, imageType, fails, imageEntries,
                         LogWarn(logs, "ID201", es[k].filename))

\* Faulty variant of EncodeLoop: the try block is around the loop, so the
\* first encoding that throws ends it.
RECURSIVE EncodeLoopStopsAtFailure(_, _, _, _, _, _)
EncodeLoopStopsAtFailure(es, k, imageType, fails, imageEntries, logs) ==
  IF k > Len(es) THEN [entries |-> imageEntries, log |-> logs]
  ELSE IF HasData(es[k])
  THEN IF k \notin fails
       THEN EncodeLoopStopsAtFailure(es, k + 1, imageType, fails,
                                     Append(imageEntries,
                                            [es[k] EXCEPT
                                               !.data = EncodeImage(es[k].data,
                                                                    imageType)]),
                                     LogInfo(logs, "ID001", es[k].filename))
       ELSE [entries |-> imageEntries,
             log |-> LogDebug(LogError(logs, "ID101", es[k].filename),
                              "ID102", es[k].filename)]
  ELSE EncodeLoopStopsAtFailure(es, k + 1, imageType, fails, imageEntries,
                                LogWarn(logs, "ID201", es[k].filename))

\* The loop of #encodeData from entry k on: `fails` are the positions whose
\* encoding throws.  Yields the encoded entries and the log.
RECURSIVE EncodeLoop(_, _, _, _, _, _)
EncodeLoop(es, k, imageType, fails, imageEntries, logs) ==
  IF k > Len(es) THEN [entries |-> imageEntries, log |-> logs]
  ELSE LET entry == es[k]
       IN IF HasData(entry)
          THEN IF k \notin fails
               THEN EncodeLoop(es, k + 1, imageType, fails,
                               Append(imageEntries,
                                      [entry EXCEPT !.data = EncodeImage(entry.data, imageType)]),
                               LogInfo(logs, "ID001", entry.filename))
               ELSE EncodeLoop(es, k + 1, imageType, fails, imageEntries,
                               LogDebug(LogError(logs, "ID101", entry.filename),
                                        "ID102", entry.filename))
          ELSE EncodeLoop(es, k + 1, imageType, fails, imageEntries,
                          LogWarn(logs, "ID201", entry.filename))

EncodeData(es, imageType, fails, logs) ==
  LET r == EncodeLoop(es, 1, imageType, fails, <<>>, logs)
  IN [entries |-> r.entries,
      log |-> IF Len(r.entries) = 0 THEN LogInfo(r.log, "ID202", "")
              ELSE r.log]

(***************************************************************************)
(* FileArchiver                                                            *)
(***************************************************************************)
\* JSZip.file(name, data): the file is added, replacing one of that name.
ZipFile(zip, name, data) ==
  IF \E k \in 1..Len(zip) : zip[k].name = name
  THEN [k \in 1..Len(zip) |->
          IF zip[k].name = name THEN [name |-> name, data |-> data] ELSE zip[k]]
  ELSE Append(zip, [name |-> name, data |-> data])

\* Faulty variant of CreateZipLoop: the test is on the entry, not on its
\* data, so an entry without data is archived (empty) and counted too.
RECURSIVE CreateZipLoopArchivesAll(_, _, _, _, _)
CreateZipLoopArchivesAll(es, k, zip, count, logs) ==
  IF k > Len(es) THEN [zip |-> zip, count |-> count, log |-> logs]
  ELSE CreateZipLoopArchivesAll(es, k + 1,
                                ZipFile(zip, es[k].filename,
                                        IF HasData(es[k]) THEN es[k].data ELSE ""),
                                count + 1,
                                LogInfo(logs, "FA001", es[k].filename))

\* The loop of #createZip from entry k on.
RECURSIVE CreateZipLoop(_, _, _, _, _)
CreateZipLoop(es, k, zip, count, logs) ==
  IF k > Len(es) THEN [zip |-> zip, count |-> count, log |-> logs]
  ELSE LET entry == es[k]
       IN IF HasData(entry)
          THEN CreateZipLoop(es, k + 1, ZipFile(zip, entry.filename, entry.data),
                             count + 1, LogInfo(logs, "FA001", entry.filename))
          ELSE CreateZipLoop(es, k + 1, zip, count,
                             LogWarn(logs, "FA002", entry.filename))

\* Faulty variant of CreateZip: the readme is added whenever it is given, and the
\* log entry too, whatever the number of archived entries.
CreateZipReadmeUnconditional(es, readmeText, logs) ==
  LET r == CreateZipLoop(es, 1, <<>>, 0, logs)
      z1 == IF readmeText # ""
            THEN ZipFile(r.zip, README_TXT, readmeText) ELSE r.zip
  IN [defined |-> TRUE,
      zip |-> ZipFile(z1, RETSPY_LOG, LogToString(r.log)),
      log |-> r.log]

\* Faulty variant of CreateZip: the text of the log is read before the loop,
\* so the records of the build itself are missing from the log entry.
CreateZipLogBeforeLoop(es, readmeText, logs) ==
  LET r == CreateZipLoop(es, 1, <<>>, 0, logs)
      z1 == IF r.count # 0 /\ readmeText # ""
            THEN ZipFile(r.zip, README_TXT, readmeText) ELSE r.zip
      l1 == IF r.count # 0 THEN r.log
            ELSE IF Len(es) = 0 THEN LogInfo(r.log, "FA003", "")
            ELSE LogInfo(r.log, "FA004", "")
  IN [defined |-> TRUE,
      zip |-> IF LogToString(logs) # <<>>
              THEN ZipFile(z1, RETSPY_LOG, LogToString(logs)) ELSE z1,
      log |-> l1]

\* Faulty variant of CreateZip: the input is taken for empty whenever no
\* entry was archived (the empty flag is not cleared in the loop).
CreateZipEmptyByCount(es, readmeText, logs) ==
  LET r == CreateZipLoop(es, 1, <<>>, 0, logs)
      z1 == IF r.count # 0 /\ readmeText # ""
            THEN ZipFile(r.zip, README_TXT, readmeText) ELSE r.zip
      l1 == IF r.count # 0 THEN r.log ELSE LogInfo(r.log, "FA003", "")
  IN [defined |-> TRUE,
      zip |-> IF LogToString(l1) # <<>>
              THEN ZipFile(z1, RETSPY_LOG, LogToString(l1)) ELSE z1,
      log |-> l1]

\* FileArchiver.#createZip: the archive and the log after the call.  The
\* readme is added when entries were archived, FA003 or FA004 is logged
\* when none was, and the text of the log is added when it is not empty.
\* (The singleton sets bind the result of the loop and the final log once.)
CreateZip(es, readmeText, logs) ==
  The({LET empty == Len(es) = 0
           z1 == IF r.count # 0 /\ readmeText # ""
                 THEN ZipFile(r.zip, README_TXT, readmeText) ELSE r.zip
           l1 == IF r.count # 0 THEN r.log
                 ELSE IF empty THEN LogInfo(r.log, "FA003", "")
                 ELSE LogInfo(r.log, "FA004", "")
       IN The({[defined |-> TRUE,
                zip |-> IF logfile # <<>>
                        THEN ZipFile(z1, RETSPY_LOG, logfile) ELSE z1,
                log |-> l] : l \in {l1}, logfile \in {LogToString(l1)}})
       : r \in {CreateZipLoop(es, 1, <<>>, 0, logs)}})

\* zipfile.generateAsync({type: "blob"}), or undefined without a zipfile
\* (FileArchiver.save).
GenerateBlob(zf) ==
  IF zf.defined THEN [defined |-> TRUE, files |-> zf.zip]
  ELSE [defined |-> FALSE]

(***************************************************************************)
(* FileSaver                                                               *)
(***************************************************************************)
\* Faulty variant of FileSaverSave: the release of the URL is not scheduled.
FileSaverSaveNoRelease(blob, filename, logs, urls) ==
  IF blob.defined
  THEN [urls |-> Append(urls, [blob |-> blob, download |-> filename,
                               clicked |-> TRUE, timer |-> FALSE,
                               delay |-> revokeTimeout,
                               revoked |-> FALSE]),
        log |-> LogInfo(logs, "FS001", filename),
        result |-> [ok |-> TRUE, message |-> "success"]]
  ELSE [urls |-> urls,
        log |-> LogError(logs, "FS002", filename),
        result |-> [ok |-> FALSE, message |-> "empty"]]

\* Faulty variant of FileSaverSave: the URL made for a blob is kept and used
\* again when the same blob is saved under the same name.
FileSaverSaveCached(blob, filename, logs, urls) ==
  IF blob.defined
  THEN [urls |-> IF \E u \in 1..Len(urls) :
                      urls[u].blob = blob /\ urls[u].download = filename
                 THEN urls
                 ELSE Append(urls, [blob |-> blob, download |-> filename,
                                    clicked |-> TRUE, timer |-> TRUE,
                                    delay |-> revokeTimeout,
                                    revoked |-> FALSE]),
        log |-> LogInfo(logs, "FS001", filename),
        result |-> [ok |-> TRUE, message |-> "success"]]
  ELSE [urls |-> urls,
        log |-> LogError(logs, "FS002", filename),
        result |-> [ok |-> FALSE, message |-> "empty"]]

\* FileSaver.save: with content, an object URL is created, the link is
\* clicked, the release of the URL is scheduled and FS001 is logged;
\* without, FS002 is logged.
FileSaverSave(blob, filename, logs, urls) ==
  IF blob.defined
  THEN [urls |-> Append(urls, [blob |-> blob, download |-> filename,
                               clicked |-> TRUE, timer |-> TRUE,
                               delay |-> revokeTimeout,
                               revoked |-> FALSE]),
        log |-> LogInfo(logs, "FS001", filename),
        result |-> [ok |-> TRUE, message |-> "success"]]
  ELSE [urls |-> urls,
        log |-> LogError(logs, "FS002", filename),
        result |-> [ok |-> FALSE, message |-> "empty"]]

(***************************************************************************)
(* Animator: types and the absent Animator.                                *)
(***************************************************************************)
VIDEOS == <<"MKV", "MP4", "WEBM">>
VID_MEDIA == [MKV |-> "video/x-matroska;codecs=avc1",
              MP4 |-> "video/mp4;codecs=avc1",
              WEBM |-> "video/webm;codecs=av1"]
\* The video types the modelled callers ask for, and their media types.
VideoTypes == {"MP4", "WEBM"}
MimeTypes == {VID_MEDIA[t] : t \in VideoTypes}
\* The frame rates the modelled callers ask for: lapse = 1000 / fps.
FpsValues == {500, 1000}

\* The completion callbacks: the resolve function of #encodeVideo's promise,
\* or the function the k-th direct call of doCapture passes.
ResolveCallback == [owner |-> "promise", id |-> 0]
CallerCallback(k) == [owner |-> "caller", id |-> k]
NoCallback == [owner |-> "", id |-> 0]

\* Animator.#recorder before #beginCapture (undefined).
NoRecorder == [state |-> "none", mimeType |-> "", frames |-> <<>>, chunks |-> <<>>]
\* Animator.#initializeStream: a recorder for the media type, not started.
InitializeStream(mime) ==
  [state |-> "inactive", mimeType |-> mime, frames |-> <<>>, chunks |-> <<>>]
\* recorder.onstop: new Blob(chunks, {type: mimeType}).
RecorderBlob(chunks, mime) == [defined |-> TRUE, parts |-> chunks, type |-> mime]

\* No Animator exists (the state of the animator variables in Spec, and in
\* VideoSpec until #encodeVideo creates one).
NoAnimator ==
  /\ now = 0 /\ supported = {} /\ fps = 0
  /\ images = <<>> /\ lapse = 0 /\ last = 0 /\ lastDraw = 0
  /\ currentImage = 0
  /\ capturing = FALSE /\ captured = FALSE /\ capture = FALSE
  /\ mimeType = "" /\ onCompletion = NoCallback
  /\ recorder = NoRecorder
  /\ raf = 0 /\ ran = FALSE /\ thrown = FALSE /\ stopTask = FALSE
  /\ completions = <<>> /\ requests = <<>> /\ drawLog = <<>>
  /\ videoPromise = [state |-> "none"]

(***************************************************************************)
(* The initial state: a download has been called and has launched its      *)
(* fetches; the log holds what earlier calls left in it.                   *)
(***************************************************************************)
PriorLogs == {<<>>, LogInfo(<<>>, "FS001", ArchiveName)}
NoOutcome == [ok |-> FALSE, message |-> ""]
NoQuery == [op |-> "none"]
NoCommon == [pc |-> "none"]
NoChain == [pc |-> "none"]

Init ==
  /\ kind \in {"file", "image"}
  /\ sequence \in SeqsUpTo(Items, MaxN)
  /\ readme \in Readmes
  /\ type = "PNG"
  /\ log0 \in PriorLogs
  /\ log = log0
  /\ fpc = [i \in 1..N |-> IF kind = "file" THEN "transport" ELSE "loading"]
  /\ response = [i \in 1..N |-> 0]
  /\ event = [i \in 1..N |-> ""]
  /\ fired = [i \in 1..N |-> <<>>]
  /\ loaders = [i \in 1..N |-> Pending]
  /\ settled = <<>>
  /\ batch = Pending
  /\ pc = "getData"
  /\ encodeFailed = {}
  /\ archived = <<>>
  /\ zipfile = [defined |-> FALSE]
  /\ content = [defined |-> FALSE]
  /\ outcome = NoOutcome
  /\ saved = <<>>
  /\ objectURLs = <<>>
  /\ query = NoQuery
  /\ common = NoCommon /\ chain = NoChain
  /\ NoAnimator

(***************************************************************************)
(* The actions.                                                            *)
(***************************************************************************)
\* FileDownloader.#fetch resumes from `await fetch(src, params)`.
FetchTransport(i) ==
  /\ fpc[i] = "transport"
  /\ \E r \in TransportResults :
       IF r.reached /\ ResponseOk(r.status)
       THEN /\ fpc' = [fpc EXCEPT ![i] = "blob"]
            /\ response' = [response EXCEPT ![i] = r.status]
            /\ UNCHANGED <<event, loaders, settled, log>>
       ELSE LET c == FetchCatch(sequence[i][1], sequence[i][2], log,
                                ~r.reached, ~r.reached,
                                IF r.reached THEN ToString(r.status)
                                ELSE "transport")
            IN /\ fpc' = [fpc EXCEPT ![i] = "done"]
               /\ response' = [response EXCEPT ![i] = r.status]
               /\ event' = [event EXCEPT
                              ![i] = IF r.reached THEN "http" ELSE "network"]
               /\ loaders' = [loaders EXCEPT ![i] = c.promise]
               /\ settled' = Append(settled, i)
               /\ log' = c.log
  /\ UNCHANGED <<kind, common, chain, query, sequence, readme, type, log0, fired, batch, pc,
                 encodeFailed, archived, zipfile, content, outcome, saved, objectURLs,
                 anVars>>

\* FileDownloader.#fetch resumes from `await response.blob()`.
FetchBlob(i) ==
  /\ fpc[i] = "blob"
  /\ \E decoded \in BOOLEAN :
       LET c == IF decoded
                THEN FetchSuccess(sequence[i][1], sequence[i][2], log, response[i])
                ELSE FetchCatch(sequence[i][1], sequence[i][2], log,
                                FALSE, TRUE, "body")
       IN /\ loaders' = [loaders EXCEPT ![i] = c.promise]
          /\ log' = c.log
          /\ event' = [event EXCEPT ![i] = IF decoded THEN "ok" ELSE "decode"]
  /\ fpc' = [fpc EXCEPT ![i] = "done"]
  /\ settled' = Append(settled, i)
  /\ UNCHANGED <<kind, common, chain, query, sequence, readme, type, log0, response, fired, batch,
                 pc, encodeFailed, archived, zipfile, content, outcome, saved,
                 objectURLs, anVars>>

\* The image of ImageLoader.#fetch fires a load, error or abort event and
\* the handler registered for it runs.  An image element fires one such
\* event for the one src it is given; the loader called on its own is also
\* run against elements that fire further events, for which the handlers
\* are still registered.
ImageEvent(i) ==
  /\ \/ fpc[i] = "loading"
     \/ kind = "loader" /\ fpc[i] = "done" /\ Len(fired[i]) < MaxEvents
  /\ \E ev \in ImageEvents :
       LET c == ImageHandler(sequence[i][1], sequence[i][2], log, ev)
       IN /\ loaders' = [loaders EXCEPT ![i] = PromiseResolve(@, c.promise)]
          /\ log' = c.log
          /\ event' = [event EXCEPT ![i] = IF @ = "" THEN ev ELSE @]
          /\ fired' = [fired EXCEPT ![i] = Append(@, ev)]
  /\ fpc' = [fpc EXCEPT ![i] = "done"]
  /\ settled' = IF fpc[i] = "loading" THEN Append(settled, i) ELSE settled
  /\ UNCHANGED <<kind, common, chain, query, sequence, readme, type, log0, response, batch, pc,
                 encodeFailed, archived, zipfile, content, outcome, saved, objectURLs,
                 anVars>>

\* The promise of Promise.all settles.
BatchSettle ==
  /\ batch.state = "pending"
  /\ PromiseAll(loaders).state # "pending"
  /\ batch' = PromiseAll(loaders)
  /\ UNCHANGED <<kind, common, chain, query, sequence, readme, type, log0, log, fpc, response, event, fired,
                 loaders, settled, pc, encodeFailed, archived, zipfile,
                 content, outcome, saved, objectURLs, anVars>>

\* download resumes from its await of the batch: ImageDownloader encodes
\* the entries, then FileArchiver.save builds the archive and starts
\* generateAsync.  A rejected batch rejects the download.
DownloadResume ==
  /\ kind \in {"file", "image"}
  /\ pc = "getData"
  /\ batch.state # "pending"
  /\ IF batch.state = "rejected"
     THEN /\ pc' = "rejected"
          /\ UNCHANGED <<encodeFailed, archived, zipfile, log>>
     ELSE \E fails \in SUBSET {k \in 1..Len(batch.value) :
                                 kind = "image" /\ HasData(batch.value[k])} :
            \E e \in {IF kind = "image"
                      THEN EncodeData(batch.value, type, fails, log)
                      ELSE [entries |-> batch.value, log |-> log]} :
            \E z \in {CreateZip(e.entries, readme, e.log)} :
               /\ encodeFailed' = fails
               /\ archived' = e.entries
               /\ zipfile' = [defined |-> z.defined, zip |-> z.zip]
               /\ log' = z.log
               /\ pc' = "generate"
  /\ UNCHANGED <<kind, common, chain, query, sequence, readme, type, log0, fpc, response, event, fired, loaders,
                 settled, batch, content, outcome, saved, objectURLs, anVars>>

\* FileArchiver.save resumes from generateAsync and calls FileSaver.save.
GenerateSettle ==
  /\ pc = "generate"
  /\ LET blob == GenerateBlob(zipfile)
         s == FileSaverSave(blob, ArchiveName, log, objectURLs)
     IN /\ content' = blob
        /\ objectURLs' = s.urls
        /\ log' = s.log
        /\ outcome' = s.result
        /\ saved' = Append(saved, [content |-> blob, filename |-> ArchiveName,
                                   result |-> s.result])
  /\ pc' = "done"
  /\ UNCHANGED <<kind, common, chain, query, sequence, readme, type, log0, fpc, response, event, fired, loaders,
                 settled, batch, encodeFailed, archived, zipfile, anVars>>

\* The timer of FileSaver.#revokeObjectURL fires: URL.revokeObjectURL.
RevokeObjectURL(u) ==
  /\ objectURLs[u].timer
  /\ objectURLs' = [objectURLs EXCEPT ![u].timer = FALSE, ![u].revoked = TRUE]
  /\ UNCHANGED <<kind, common, chain, query, sequence, readme, type, log0, log, fpc, response, event, fired,
                 loaders, settled, batch, pc, encodeFailed, archived, zipfile,
                 content, outcome, saved, anVars>>

Next ==
  \/ \E i \in 1..N : FetchTransport(i)
  \/ \E i \in 1..N : FetchBlob(i)
  \/ \E i \in 1..N : ImageEvent(i)
  \/ BatchSettle
  \/ DownloadResume
  \/ GenerateSettle
  \/ \E u \in 1..Len(objectURLs) : RevokeObjectURL(u)

Spec == Init /\ [][Next]_vars

\* The event loop runs every job that is ready and every request settles.
\* Progress does not depend on what the log held before the call.
FairInit == Init /\ log0 = <<>>
FairSpec == FairInit /\ [][Next]_vars /\ WF_vars(Next)

(***************************************************************************)
(* Animator and VideoDownloader                                            *)
(***************************************************************************)
\* No download runs (the state of the download variables in AnimSpec).
NoDownload ==
  /\ sequence = <<>> /\ readme = "" /\ type = ""
  /\ log0 = <<>> /\ log = <<>>
  /\ fpc = <<>> /\ response = <<>> /\ event = <<>> /\ fired = <<>>
  /\ loaders = <<>>
  /\ settled = <<>> /\ batch = Pending /\ pc = "none"
  /\ encodeFailed = {} /\ archived = <<>>
  /\ zipfile = [defined |-> FALSE] /\ content = [defined |-> FALSE]
  /\ outcome = NoOutcome /\ saved = <<>> /\ objectURLs = <<>>
  /\ query = NoQuery

\* A begin test that ignores the frame index.
BeginCaptureAnyFrame == capture /\ ~capturing
\* A begin test that forgets a capture is running or has been made.
BeginCaptureRestarts == capture /\ currentImage = 0
\* The test of #animate that starts the capture.
BeginCaptureDue == capture /\ currentImage = 0 /\ ~capturing

\* An end test that forgets a capture has already been made.
EndCaptureRepeats(capturingNow) ==
  capture /\ currentImage = last /\ capturingNow
\* The test of #animate that ends the capture; capturingNow is #capturing
\* as the begin test left it.
EndCaptureDue(capturingNow) ==
  capture /\ currentImage = last /\ capturingNow /\ ~captured

\* Faulty variant of RequestAnimationFrame: the tick schedules a successor
\* twice (before and after its own logic).
RequestAnimationFrameTwice(pending) == pending + 2
\* requestAnimationFrame(this.#animate.bind(this)), the last statement of
\* #animate: one more frame callback is scheduled.
RequestAnimationFrame(pending) == pending + 1

\* Animator.#animate(currentTime), called by run() and by every animation
\* frame; `pending` is the number of frame callbacks still scheduled when it
\* runs.  A tick that fires before one lapse has elapsed only reschedules.
\* Otherwise it starts the capture at frame 0 (#beginCapture throws when
\* the recorder cannot be created for the media type, which ends the tick
\* before the draw and before the reschedule), draws the current frame,
\* stops the capture at the last frame and advances the frame index.
Animate(currentTime, pending) ==
  LET elapsedTime == currentTime - lastDraw
      begin == BeginCaptureDue
      throws == begin /\ mimeType \notin supported
      capturing1 == capturing \/ begin
      recorder1 == IF begin
                   THEN [InitializeStream(mimeType) EXCEPT !.state = "recording"]
                   ELSE recorder
      recorder2 == IF recorder1.state = "recording"
                   THEN [recorder1 EXCEPT !.frames = Append(@, currentImage)]
                   ELSE recorder1
      end == EndCaptureDue(capturing1)
  IN IF elapsedTime >= lapse
     THEN IF throws
          THEN /\ lastDraw' = currentTime
               /\ capturing' = TRUE
               /\ thrown' = TRUE
               /\ raf' = pending
               /\ UNCHANGED <<recorder, stopTask, captured, capture,
                              currentImage, drawLog>>
          ELSE /\ lastDraw' = currentTime
               /\ capturing' = capturing1
               /\ recorder' = IF end THEN [recorder2 EXCEPT !.state = "inactive"]
                              ELSE recorder2
               /\ stopTask' = (stopTask \/ end)
               /\ captured' = (captured \/ end)
               /\ capture' = (capture /\ ~end)
               /\ currentImage' = (currentImage + 1) % Len(images)
               /\ drawLog' = Append(drawLog,
                                    [frame |-> currentImage,
                                     armed |-> requests # <<>>,
                                     asked |-> Len(requests),
                                     began |-> begin, ended |-> end])
               /\ raf' = RequestAnimationFrame(pending)
               /\ UNCHANGED thrown
     ELSE /\ raf' = RequestAnimationFrame(pending)
          /\ UNCHANGED <<lastDraw, capturing, recorder, stopTask, captured,
                         capture, currentImage, drawLog, thrown>>

\* Animator.run(), some time after the construction.
Run ==
  /\ kind = "animator" /\ ~ran
  /\ \E dt \in 0..MaxDt :
       /\ now + dt <= MaxTime
       /\ now' = now + dt
       /\ Animate(now + dt, raf)
  /\ ran' = TRUE
  /\ UNCHANGED <<supported, fps, images, lapse, last, mimeType, onCompletion,
                 completions, requests, videoPromise, dlVars>>

\* Animator.doCapture(mimeType, onCompletion), called from outside at any
\* time.
DoCapture(mime) ==
  /\ kind = "animator"
  /\ Len(requests) < MaxRequests
  /\ onCompletion' = CallerCallback(Len(requests) + 1)
  /\ mimeType' = mime
  /\ capture' = TRUE
  /\ requests' = Append(requests, [mimeType |-> mime,
                                   onCompletion |-> CallerCallback(Len(requests) + 1)])
  /\ UNCHANGED <<now, supported, fps, images, lapse, last, lastDraw,
                 currentImage, capturing, captured, recorder, raf, ran, thrown,
                 stopTask, completions, drawLog, videoPromise, dlVars>>

\* The browser runs a scheduled animation-frame callback: #animate with the
\* time of the frame.
AnimationFrame ==
  /\ raf > 0
  /\ \E dt \in 1..MaxDt :
       /\ now + dt <= MaxTime
       /\ now' = now + dt
       /\ Animate(now + dt, raf - 1)
  /\ UNCHANGED <<supported, fps, images, lapse, last, mimeType, onCompletion,
                 ran, completions, requests, videoPromise, dlVars>>

\* The task recorder.stop() queued: the dataavailable event (its data is
\* buffered when its size is positive), then the stop event, whose handler
\* builds the blob and calls the completion callback.
RecorderStopTask ==
  /\ stopTask
  /\ \E size \in 0..1 :
       LET chunks == IF size > 0 THEN Append(recorder.chunks, recorder.frames)
                     ELSE recorder.chunks
           blob == RecorderBlob(chunks, recorder.mimeType)
       IN /\ recorder' = [recorder EXCEPT !.chunks = chunks]
          /\ completions' = Append(completions,
                                   [callback |-> onCompletion, blob |-> blob,
                                    asked |-> Len(requests)])
          /\ videoPromise' = IF onCompletion = ResolveCallback
                                /\ videoPromise.state = "pending"
                             THEN Fulfilled(blob) ELSE videoPromise
  /\ stopTask' = FALSE
  /\ UNCHANGED <<now, supported, fps, images, lapse, last, lastDraw,
                 currentImage, capturing, captured, capture, mimeType,
                 onCompletion, raf, ran, thrown, requests, drawLog, dlVars>>

\* Faulty variant of VideoEncodeLoop: the test for data is left out, so an
\* entry without data gives a frame that holds nothing.
RECURSIVE VideoEncodeLoopNoTest(_, _, _, _)
VideoEncodeLoopNoTest(es, k, imgs, logs) ==
  IF k > Len(es) THEN [images |-> imgs, log |-> logs]
  ELSE VideoEncodeLoopNoTest(es, k + 1,
         Append(imgs, IF HasData(es[k]) THEN es[k].data ELSE <<>>),
         LogInfo(logs, "VD001", es[k].filename))

\* The loop of VideoDownloader.#encodeData from entry k on.
RECURSIVE VideoEncodeLoop(_, _, _, _)
VideoEncodeLoop(es, k, imgs, logs) ==
  IF k > Len(es) THEN [images |-> imgs, log |-> logs]
  ELSE IF HasData(es[k])
  THEN VideoEncodeLoop(es, k + 1, Append(imgs, es[k].data),
                       LogInfo(logs, "VD001", es[k].filename))
  ELSE VideoEncodeLoop(es, k + 1, imgs, LogWarn(logs, "VD201", es[k].filename))

\* VideoDownloader.download resumes from its await of ImageLoader.load:
\* #encodeData collects the images and #encodeVideo, when there is one,
\* creates the Animator, calls run() (#animate runs at the time the
\* constructor read, so it only schedules the first frame) and doCapture
\* with the resolve function of the promise it returns; without images it
\* returns a promise resolved with undefined.
VideoResume ==
  /\ kind = "video"
  /\ pc = "getData"
  /\ batch.state # "pending"
  /\ IF batch.state = "rejected"
     THEN /\ pc' = "rejected"
          /\ UNCHANGED <<log, anVars>>
     ELSE \E e \in {VideoEncodeLoop(batch.value, 1, <<>>, log)} :
            /\ pc' = "encode"
            /\ log' = IF Len(e.images) = 0 THEN LogInfo(e.log, "VD202", "")
                      ELSE e.log
            /\ IF Len(e.images) > 0
               THEN /\ images' = e.images
                    /\ lapse' = 1000 \div fps
                    /\ last' = Len(e.images) - 1
                    /\ lastDraw' = now
                    /\ ran' = TRUE
                    /\ raf' = raf + 1
                    /\ mimeType' = VID_MEDIA[type]
                    /\ onCompletion' = ResolveCallback
                    /\ capture' = TRUE
                    /\ requests' = Append(requests,
                                          [mimeType |-> VID_MEDIA[type],
                                           onCompletion |-> ResolveCallback])
                    /\ videoPromise' = Pending
                    /\ UNCHANGED <<now, supported, fps, currentImage,
                                   capturing, captured, recorder, thrown,
                                   stopTask, completions, drawLog>>
               ELSE /\ videoPromise' = Fulfilled([defined |-> FALSE])
                    /\ UNCHANGED <<now, supported, fps, images, lapse, last,
                                   lastDraw, currentImage, capturing, captured,
                                   capture, mimeType, onCompletion, recorder,
                                   raf, ran, thrown, stopTask, completions,
                                   requests, drawLog>>
  /\ UNCHANGED <<kind, common, chain, query, sequence, readme, type, log0, fpc, response, event, fired,
                 loaders, settled, batch, encodeFailed, archived, zipfile,
                 content, outcome, saved, objectURLs>>

\* VideoDownloader.download resumes from its await of #encodeData: the
\* catch handler has turned a rejection into undefined (VD101, VD102), and
\* FileSaver.save is called with the content.
VideoSettle ==
  /\ kind = "video"
  /\ pc = "encode"
  /\ videoPromise.state \in {"fulfilled", "rejected"}
  /\ LET caught == videoPromise.state = "rejected"
         l1 == IF caught
               THEN LogDebug(LogError(log, "VD101", VideoName), "VD102", "")
               ELSE log
         blob == IF caught THEN [defined |-> FALSE] ELSE videoPromise.value
         s == FileSaverSave(blob, VideoName, l1, objectURLs)
     IN /\ content' = blob
        /\ objectURLs' = s.urls
        /\ log' = s.log
        /\ outcome' = s.result
        /\ saved' = Append(saved, [content |-> blob, filename |-> VideoName,
                                   result |-> s.result])
  /\ pc' = "done"
  /\ UNCHANGED <<kind, common, chain, query, sequence, readme, type, log0, fpc, response, event, fired,
                 loaders, settled, batch, encodeFailed, archived, zipfile,
                 anVars>>

\* An Animator has been constructed over 1..MaxL images.
AnimInit ==
  /\ kind = "animator"
  /\ common = NoCommon /\ chain = NoChain
  /\ NoDownload
  /\ now = 0
  /\ supported \in SUBSET MimeTypes
  /\ fps \in FpsValues
  /\ images \in {[k \in 1..n |-> <<"img", "https://x/1.jpg">>] : n \in 1..MaxL}
  /\ lapse = 1000 \div fps
  /\ last = Len(images) - 1
  /\ lastDraw = now
  /\ currentImage = 0
  /\ capturing = FALSE /\ captured = FALSE /\ capture = FALSE
  /\ mimeType = "" /\ onCompletion = NoCallback
  /\ recorder = NoRecorder
  /\ raf = 0 /\ ran = FALSE /\ thrown = FALSE /\ stopTask = FALSE
  /\ completions = <<>> /\ requests = <<>> /\ drawLog = <<>>
  /\ videoPromise = [state |-> "none"]

AnimNext ==
  \/ Run
  \/ \E mime \in MimeTypes : DoCapture(mime)
  \/ AnimationFrame
  \/ RecorderStopTask

AnimSpec == AnimInit /\ [][AnimNext]_vars

\* VideoDownloader.download has been called and has launched its image
\* loads.
VideoInit ==
  /\ kind = "video"
  /\ sequence \in SeqsUpTo(Items, MaxN)
  /\ readme = ""
  /\ type \in VideoTypes
  /\ log0 = <<>>
  /\ log = log0
  /\ fpc = [i \in 1..N |-> "loading"]
  /\ response = [i \in 1..N |-> 0]
  /\ event = [i \in 1..N |-> ""]
  /\ fired = [i \in 1..N |-> <<>>]
  /\ loaders = [i \in 1..N |-> Pending]
  /\ settled = <<>>
  /\ batch = Pending
  /\ pc = "getData"
  /\ encodeFailed = {}
  /\ archived = <<>>
  /\ zipfile = [defined |-> FALSE]
  /\ content = [defined |-> FALSE]
  /\ outcome = NoOutcome
  /\ saved = <<>>
  /\ objectURLs = <<>>
  /\ query = NoQuery
  /\ common = NoCommon /\ chain = NoChain
  /\ now = 0
  /\ supported \in SUBSET MimeTypes
  /\ fps \in FpsValues
  /\ images = <<>> /\ lapse = 0 /\ last = 0 /\ lastDraw = 0
  /\ currentImage = 0
  /\ capturing = FALSE /\ captured = FALSE /\ capture = FALSE
  /\ mimeType = "" /\ onCompletion = NoCallback
  /\ recorder = NoRecorder
  /\ raf = 0 /\ ran = FALSE /\ thrown = FALSE /\ stopTask = FALSE
  /\ completions = <<>> /\ requests = <<>> /\ drawLog = <<>>
  /\ videoPromise = [state |-> "none"]

VideoNext ==
  \/ \E i \in 1..N : ImageEvent(i)
  \/ BatchSettle
  \/ VideoResume
  \/ AnimationFrame
  \/ RecorderStopTask
  \/ VideoSettle
  \/ \E u \in 1..Len(objectURLs) : RevokeObjectURL(u)

VideoSpec == VideoInit /\ [][VideoNext]_vars

(***************************************************************************)
(* ImageLoader.load called directly                                        *)
(***************************************************************************)
\* ImageLoader.load(sequence) has been called and has created its images.
LoaderInit ==
  /\ kind = "loader"
  /\ sequence \in SeqsUpTo(Items, MaxN)
  /\ readme = "" /\ type = ""
  /\ log0 \in PriorLogs
  /\ log = log0
  /\ fpc = [i \in 1..N |-> "loading"]
  /\ response = [i \in 1..N |-> 0]
  /\ event = [i \in 1..N |-> ""]
  /\ fired = [i \in 1..N |-> <<>>]
  /\ loaders = [i \in 1..N |-> Pending]
  /\ settled = <<>>
  /\ batch = Pending
  /\ pc = "getData"
  /\ encodeFailed = {}
  /\ archived = <<>>
  /\ zipfile = [defined |-> FALSE]
  /\ content = [defined |-> FALSE]
  /\ outcome = NoOutcome
  /\ saved = <<>>
  /\ objectURLs = <<>>
  /\ query = NoQuery
  /\ common = NoCommon /\ chain = NoChain
  /\ NoAnimator

LoaderNext ==
  \/ \E i \in 1..N : ImageEvent(i)
  \/ BatchSettle

LoaderSpec == LoaderInit /\ [][LoaderNext]_vars

(***************************************************************************)
(* FileArchiver.save called directly                                       *)
(***************************************************************************)
\* The entries a caller can pass: a url and a filename (the two reserved
\* names included), with or without data.
ArchiveFiles == {<<"https://x/a.txt", "a.txt">>, <<"https://x/b.txt", "b.txt">>,
                 <<"https://x/README.txt", README_TXT>>,
                 <<"https://x/RETSPY.log", RETSPY_LOG>>}
Payloads == {"A", "B"}
ArchiveEntries ==
  {[src |-> f[1], filename |-> f[2]] : f \in ArchiveFiles}
    \cup {[src |-> f[1], filename |-> f[2], data |-> d] :
            f \in ArchiveFiles, d \in Payloads}

\* FileArchiver.save(entries, filename, readme) has been called.
ArchInit ==
  /\ kind = "archiver"
  /\ archived \in SeqsUpTo(ArchiveEntries, MaxEntries)
  /\ readme \in Readmes
  /\ log0 \in PriorLogs
  /\ log = log0
  /\ pc = "createZip"
  /\ sequence = <<>> /\ type = ""
  /\ fpc = <<>> /\ response = <<>> /\ event = <<>> /\ fired = <<>>
  /\ loaders = <<>>
  /\ settled = <<>> /\ batch = Pending
  /\ encodeFailed = {}
  /\ zipfile = [defined |-> FALSE]
  /\ content = [defined |-> FALSE]
  /\ outcome = NoOutcome
  /\ saved = <<>>
  /\ objectURLs = <<>>
  /\ query = NoQuery
  /\ common = NoCommon /\ chain = NoChain
  /\ NoAnimator

\* FileArchiver.save up to its await: #createZip builds the archive and
\* generateAsync is started.
ArchiverCreateZip ==
  /\ kind = "archiver"
  /\ pc = "createZip"
  /\ \E z \in {CreateZip(archived, readme, log)} :
       /\ zipfile' = [defined |-> z.defined, zip |-> z.zip]
       /\ log' = z.log
  /\ pc' = "generate"
  /\ UNCHANGED <<kind, common, chain, query, sequence, readme, type, log0, fpc, response, event, fired,
                 loaders, settled, batch, encodeFailed, archived, content,
                 outcome, saved, objectURLs, anVars>>

ArchNext ==
  \/ ArchiverCreateZip
  \/ GenerateSettle
  \/ \E u \in 1..Len(objectURLs) : RevokeObjectURL(u)

ArchSpec == ArchInit /\ [][ArchNext]_vars

(***************************************************************************)
(* FileSaver.save called directly                                          *)
(***************************************************************************)
\* The contents a caller can pass: undefined, a Blob without bytes, Blobs
\* with bytes.
SaverContents ==
  {[defined |-> FALSE]}
    \cup {RecorderBlob(parts, VID_MEDIA.WEBM) : parts \in {<<>>, <<"A">>, <<"B">>}}
SaverNames == {ArchiveName, VideoName}

\* The module is loaded and nothing runs.
SaverInit ==
  /\ kind = "saver"
  /\ common = NoCommon /\ chain = NoChain
  /\ NoDownload
  /\ NoAnimator

\* FileSaver.save(content, filename).
SaverSave(blob, filename) ==
  /\ kind = "saver"
  /\ Len(saved) < MaxSaves
  /\ \E s \in {FileSaverSave(blob, filename, log, objectURLs)} :
       /\ objectURLs' = s.urls
       /\ log' = s.log
       /\ outcome' = s.result
       /\ saved' = Append(saved, [content |-> blob, filename |-> filename,
                                  result |-> s.result])
  /\ content' = blob
  /\ UNCHANGED <<kind, common, chain, query, sequence, readme, type, log0, fpc, response, event,
                 fired, loaders, settled, batch, pc, encodeFailed, archived,
                 zipfile, anVars>>

SaverNext ==
  \/ \E blob \in SaverContents, filename \in SaverNames : SaverSave(blob, filename)
  \/ \E u \in 1..Len(objectURLs) : RevokeObjectURL(u)

SaverSpec == SaverInit /\ [][SaverNext]_vars

(***************************************************************************)
(* Definitions the claims share.                                           *)
(***************************************************************************)
\* Fetch i ended in a failure (network, HTTP, decode, error or abort).
FetchFailed(i) == event[i] \in {"network", "http", "decode", "error", "abort"}
\* Every fetch has settled.
AllSettled == \A i \in 1..N : fpc[i] = "done"
\* The positions whose entry neither failed to load nor failed to encode.
Succeeded == {i \in 1..N : event[i] \in {"ok", "load"} /\ i \notin encodeFailed}
PayloadCount(es) == Cardinality({k \in 1..Len(es) : HasData(es[k])})
ZipNames(zip) == {zip[k].name : k \in 1..Len(zip)}

(***************************************************************************)
(* C1.  The batch fetch (#getData, ImageLoader.load) yields exactly N      *)
(* entries for an input of N pairs (N = 0 included), and entry i carries   *)
(* the url and the filename of input pair i, whatever the order in which   *)
(* the fetches complete and whichever of them fail.                        *)
(***************************************************************************)
C1_BatchInInputOrder ==
  /\ batch.state # "rejected"
  /\ batch.state = "fulfilled" =>
       /\ Len(batch.value) = N
       /\ \A i \in 1..N : /\ batch.value[i].src = sequence[i][1]
                          /\ batch.value[i].filename = sequence[i][2]

\* Two different pairs, the second fetch completing first, one failing.
C1_Witness ==
  /\ batch.state = "fulfilled"
  /\ N = 2 /\ sequence[1] # sequence[2]
  /\ settled = <<2, 1>>
  /\ FetchFailed(1) /\ ~FetchFailed(2)

(***************************************************************************)
(* C2.  FileDownloader.download and ImageDownloader.download never reject  *)
(* and always resolve to a save outcome, whatever entries fail in the      *)
(* network, the HTTP status, the decoding or the encoding: a failed entry  *)
(* has no payload, and the archive is still built and saved.               *)
(***************************************************************************)
C2_DownloadAlwaysResolves ==
  /\ [](/\ pc # "rejected"
        /\ pc = "done" =>
             /\ outcome \in {[ok |-> TRUE, message |-> "success"],
                             [ok |-> FALSE, message |-> "empty"]}
             /\ zipfile.defined
             /\ \A i \in 1..N : FetchFailed(i) => ~HasData(batch.value[i])
             /\ PayloadCount(archived) = Cardinality(Succeeded))
  /\ <>(pc = "done")

\* A download that ended although one fetch failed and one encoding threw.
C2_Witness ==
  /\ pc = "done" /\ N = 2
  /\ \E i \in 1..N : FetchFailed(i)
  /\ encodeFailed # {}

(***************************************************************************)
(* C3.  The batch returns only after every fetch has settled, with the     *)
(* result of every one of them, and it does return once all have settled:  *)
(* a failure neither makes it return earlier nor stops a sibling fetch.    *)
(***************************************************************************)
C3_BatchWaitsForAll ==
  /\ [](batch.state # "pending" =>
          /\ AllSettled
          /\ batch.state = "fulfilled"
          /\ Len(batch.value) = N
          /\ \A i \in 1..N : batch.value[i] = loaders[i].value)
  /\ <>AllSettled
  /\ (AllSettled ~> batch.state # "pending")

\* The first fetch has failed, its sibling is still running and the batch
\* is still pending.
C3_Witness ==
  /\ N = 2 /\ batch.state = "pending"
  /\ FetchFailed(1) /\ fpc[2] # "done"

(***************************************************************************)
(* Definitions the Animator claims share.                                  *)
(***************************************************************************)
\* The drawing ticks at which the recording started, and ended.
BeginTicks == {k \in DOMAIN drawLog : drawLog[k].began}
EndTicks == {k \in DOMAIN drawLog : drawLog[k].ended}
\* The frame indexes 0 .. n-1 in order.
FramesUpTo(n) == [i \in 1..n |-> i - 1]

(***************************************************************************)
(* C4.  Whatever the frame shown when doCapture is called, the recording   *)
(* starts at the first drawing tick after the call that shows frame 0 and  *)
(* stops at the first drawing tick from there on that shows frame L-1      *)
(* (for L = 1 that is the same tick), so that the frames drawn while the   *)
(* recorder runs are 0, 1, ..., L-1, each once and in order.  Holds in     *)
(* sessions whose recorder can be created.                                 *)
(***************************************************************************)
C4_CaptureSpansOneCycle ==
  /\ \A k \in DOMAIN drawLog :
       drawLog[k].began <=>
         /\ drawLog[k].armed /\ drawLog[k].frame = 0
         /\ \A j \in 1..(k - 1) : ~(drawLog[j].armed /\ drawLog[j].frame = 0)
  /\ \A k \in DOMAIN drawLog :
       drawLog[k].ended <=>
         /\ drawLog[k].frame = Len(images) - 1
         /\ \E b \in BeginTicks :
              /\ b <= k
              /\ \A m \in b..(k - 1) : drawLog[m].frame # Len(images) - 1
  /\ recorder.state = "recording" =>
       /\ ~captured
       /\ recorder.frames = FramesUpTo(currentImage)
  /\ captured => /\ recorder.state = "inactive"
                 /\ recorder.frames = FramesUpTo(Len(images))

\* Three images, doCapture called while frame 1 was the next to draw, and
\* the capture has been made.
C4_Witness ==
  /\ Len(images) = 3 /\ captured
  /\ \E k \in DOMAIN drawLog :
       /\ drawLog[k].frame = 1 /\ drawLog[k].armed
       /\ k > 1 /\ ~drawLog[k - 1].armed
       /\ \E b \in BeginTicks : b > k

(***************************************************************************)
(* C5.  In a session whose recorder is created, the completion callback is *)
(* called once and only once: not before the recorder has been stopped,    *)
(* once after it, and never again however long the loop runs and even if   *)
(* doCapture is called again.  The callback called is the one of the       *)
(* latest doCapture; it receives one blob, made of the chunks the recorder *)
(* buffered and tagged with the media type that was asked for when the     *)
(* recording started.                                                      *)
(***************************************************************************)
C5_CompletionExactlyOnce ==
  /\ Len(completions) <= 1
  /\ stopTask => completions = <<>>
  /\ captured => (stopTask \/ Len(completions) = 1)
  /\ completions # <<>> =>
       /\ captured /\ recorder.state = "inactive"
       /\ completions[1].callback =
            requests[completions[1].asked].onCompletion
       /\ completions[1].blob.defined
       /\ completions[1].blob.parts = recorder.chunks
       /\ \E b \in BeginTicks :
            completions[1].blob.type = requests[drawLog[b].asked].mimeType

\* The callback has been called, doCapture has been called again after it
\* and the loop has drawn the last frame once more since.
C5_Witness ==
  /\ Len(completions) = 1 /\ Len(requests) = 2
  /\ capture
  /\ \E e \in EndTicks : \E k \in DOMAIN drawLog :
       /\ k > e
       /\ drawLog[k].frame = Len(images) - 1
       /\ drawLog[k].asked = 2 /\ drawLog[e].asked = 1

(***************************************************************************)
(* C6.  When the recorder cannot be created for the media type asked for,  *)
(* VideoDownloader.download still settles: as long as it has not, some     *)
(* step that is left to run remains.                                       *)
(***************************************************************************)
C6_RecorderFailureSettles ==
  thrown => (pc = "done" \/ ENABLED VideoNext)

(***************************************************************************)
(* C7.  With exactly one image, the recording that starts at one display   *)
(* of frame 0 stops at the following display of frame 0.                   *)
(***************************************************************************)
C7_SingleImageSpansOneLoop ==
  Len(images) = 1 =>
    \A b \in BeginTicks : \A e \in EndTicks : e = b + 1

(***************************************************************************)
(* C8.  Once the capture has been made, the loop has stopped: no animation *)
(* frame is scheduled any more.                                            *)
(***************************************************************************)
C8_LoopSelfTerminates ==
  captured => raf = 0

C10_EmptyInputReportsEmpty ==
  (pc = "done" /\ N = 0 /\ log0 = <<>>) =>
     outcome = [ok |-> FALSE, message |-> "empty"]

(***************************************************************************)
(* C11.  When no entry given to FileArchiver.save carries a payload, the   *)
(* archive is still built, and the outcome returned to the caller is not a *)
(* success.                                                                *)
(***************************************************************************)
C11_NoPayloadNotSuccess ==
  (pc = "done" /\ PayloadCount(archived) = 0) =>
     /\ zipfile.defined
     /\ ~outcome.ok

(***************************************************************************)
(* C12.  When some fetches of a FileDownloader.download succeed and all    *)
(* the others get an HTTP failure status, the data entries of the archive  *)
(* are exactly the filenames of the successful fetches, each with the      *)
(* bytes fetched for it; the log entry holds, for each failed fetch, the   *)
(* failure record naming its url followed by the HTTP error record with    *)
(* its status; and the download returns ok = true, "success".              *)
(***************************************************************************)
C12_MixedBatchArchive ==
  (/\ kind = "file" /\ pc = "done"
   /\ \A i \in 1..N : event[i] \in {"ok", "http"}
   /\ \E i \in 1..N : event[i] = "ok"
   /\ \E i \in 1..N : event[i] = "http") =>
     /\ ZipNames(zipfile.zip) \ {README_TXT, RETSPY_LOG} =
          {sequence[i][2] : i \in {j \in 1..N : event[j] = "ok"}}
     /\ \A k \in 1..Len(zipfile.zip) :
          zipfile.zip[k].name \notin {README_TXT, RETSPY_LOG} =>
            \E i \in 1..N : /\ event[i] = "ok"
                            /\ zipfile.zip[k].name = sequence[i][2]
                            /\ zipfile.zip[k].data = <<"blob", sequence[i][1]>>
     /\ \E k \in 1..Len(zipfile.zip) :
          /\ zipfile.zip[k].name = RETSPY_LOG
          /\ \A i \in 1..N : event[i] = "http" =>
               \E j \in 1..(Len(zipfile.zip[k].data) - 1) :
                 /\ zipfile.zip[k].data[j] =
                      <<"ERROR", MODULE_FILENAME, "FD101", sequence[i][1]>>
                 /\ zipfile.zip[k].data[j + 1] =
                      <<"DEBUG", MODULE_FILENAME, "FD102", ToString(response[i])>>
     /\ content = [defined |-> TRUE, files |-> zipfile.zip]
     /\ outcome = [ok |-> TRUE, message |-> "success"]

\* The first url was fetched, the second returned 404, and the archive was
\* saved.
C12_Witness ==
  /\ kind = "file" /\ pc = "done" /\ N = 2
  /\ sequence = <<<<"https://x/1.jpg", "1.jpg">>, <<"https://x/2.jpg", "2.jpg">>>>
  /\ event = <<"ok", "http">> /\ response[2] = 404

(***************************************************************************)
(* Definitions the FileArchiver claims share.                              *)
(***************************************************************************)
\* The positions of the input entries that carry a payload.
WithPayload == {k \in 1..Len(archived) : HasData(archived[k])}
\* #createZip has run.
Zipped == pc \in {"generate", "done"}
\* The input filenames are pairwise distinct and none is a reserved name.
PlainNames ==
  /\ \A j, k \in 1..Len(archived) :
       j # k => archived[j].filename # archived[k].filename
  /\ \A k \in 1..Len(archived) :
       archived[k].filename \notin {README_TXT, RETSPY_LOG}
\* The entries of the archive other than the manifest and the log.
DataEntries ==
  {zipfile.zip[k] : k \in {j \in 1..Len(zipfile.zip) :
                            zipfile.zip[j].name \notin {README_TXT, RETSPY_LOG}}}
\* The k-th record the archiver appended to the log.
Appended(k) == log[Len(log0) + k]

(***************************************************************************)
(* C13.  #createZip goes through the entries in order: an entry with a     *)
(* payload is added under its filename and logged as archived (FA001), an  *)
(* entry without one adds nothing and is logged once (FA002); the entries  *)
(* are counted, so that the no-entry record follows exactly when none had  *)
(* a payload.  When the filenames are pairwise distinct and not reserved,  *)
(* the data entries of the archive are exactly the input entries that      *)
(* have a payload, each under its filename with its payload.               *)
(***************************************************************************)
C13_ArchivesPayloadEntries ==
  Zipped =>
    /\ \A k \in 1..Len(archived) :
         IF HasData(archived[k])
         THEN /\ Appended(k) = BuildLogEntry("INFO", MODULE_FILENAME, "FA001",
                                             archived[k].filename)
              /\ archived[k].filename \in ZipNames(zipfile.zip)
         ELSE Appended(k) = BuildLogEntry("WARN", MODULE_FILENAME, "FA002",
                                          archived[k].filename)
    /\ \A e \in DataEntries :
         \E k \in WithPayload :
           /\ archived[k].filename = e.name /\ archived[k].data = e.data
           /\ \A j \in WithPayload :
                archived[j].filename = e.name => j <= k
    /\ Len(log) = Len(log0) + Len(archived)
                    + (IF WithPayload = {} THEN 1 ELSE 0)
                    + (IF pc = "done" THEN 1 ELSE 0)
    /\ PlainNames =>
         /\ DataEntries = {[name |-> archived[k].filename,
                            data |-> archived[k].data] : k \in WithPayload}
         /\ Cardinality(DataEntries) = Cardinality(WithPayload)

\* Two entries with plain names, the first without payload and the second
\* with one, have been archived.
C13_Witness ==
  /\ kind = "archiver" /\ Zipped /\ PlainNames
  /\ Len(archived) = 2
  /\ ~HasData(archived[1]) /\ HasData(archived[2])

(***************************************************************************)
(* C14.  The archive holds the manifest, README.txt with the readme text,  *)
(* if and only if at least one entry was added and readme text was given.  *)
(* Otherwise, and in particular when no entry was added although readme    *)
(* text was given, the archive has no README.txt (other than an input      *)
(* entry that came with that very name).                                   *)
(***************************************************************************)
C14_ManifestIffAdded ==
  Zipped =>
    IF WithPayload # {} /\ readme # ""
    THEN \E k \in 1..Len(zipfile.zip) :
           /\ zipfile.zip[k].name = README_TXT
           /\ zipfile.zip[k].data = readme
    ELSE \/ README_TXT \notin ZipNames(zipfile.zip)
         \/ \E k \in WithPayload : archived[k].filename = README_TXT

\* Readme text was given, but the only entry had no payload, and the
\* archive was built.
C14_Witness ==
  /\ kind = "archiver" /\ Zipped
  /\ readme # "" /\ Len(archived) = 1 /\ WithPayload = {}
  /\ README_TXT \notin ZipNames(zipfile.zip)

\* What unpacking the saved blob yields: the data under each name.
Unpack(blob) ==
  [nm \in ZipNames(blob.files) |->
     (CHOOSE f \in {blob.files[k] : k \in {j \in 1..Len(blob.files) :
                                            blob.files[j].name = nm}} : TRUE).data]
\* An archive has been saved that was built from entries that all carry a
\* payload, under pairwise distinct plain names, with readme text.
RoundTripCase ==
  /\ pc = "done" /\ content.defined
  /\ PlainNames /\ WithPayload = 1..Len(archived)
  /\ readme # ""

(***************************************************************************)
(* C15 as stated.  An archive built from n >= 1 entries with payloads,     *)
(* under pairwise distinct plain names, with readme text R, while the log  *)
(* text is L, unpacks to exactly n + 2 entries: each filename with its     *)
(* payload, the manifest with R and the log entry with L.                  *)
(***************************************************************************)
C15_RoundTripAsStated ==
  (RoundTripCase /\ Len(archived) >= 1 /\ log0 # <<>>) =>
     /\ Cardinality(DOMAIN Unpack(content)) = Len(archived) + 2
     /\ \A k \in 1..Len(archived) :
          /\ archived[k].filename \in DOMAIN Unpack(content)
          /\ Unpack(content)[archived[k].filename] = archived[k].data
     /\ README_TXT \in DOMAIN Unpack(content)
     /\ Unpack(content)[README_TXT] = readme
     /\ RETSPY_LOG \in DOMAIN Unpack(content)
     /\ Unpack(content)[RETSPY_LOG] = LogToString(log0)

(***************************************************************************)
(* C15 amended.  For n >= 1 such entries, the archive unpacks to exactly   *)
(* n + 2 entries: each filename with its payload, the manifest with R, and *)
(* the log entry with the text of the log as the build leaves it, that is  *)
(* L followed by the n records (FA001) the build wrote for the entries.    *)
(***************************************************************************)
C15_RoundTrip ==
  (RoundTripCase /\ Len(archived) >= 1) =>
     /\ Cardinality(DOMAIN Unpack(content)) = Len(archived) + 2
     /\ \A k \in 1..Len(archived) :
          /\ archived[k].filename \in DOMAIN Unpack(content)
          /\ Unpack(content)[archived[k].filename] = archived[k].data
     /\ README_TXT \in DOMAIN Unpack(content)
     /\ Unpack(content)[README_TXT] = readme
     /\ RETSPY_LOG \in DOMAIN Unpack(content)
     /\ Unpack(content)[RETSPY_LOG] =
          LogToString(log0) \o
            [k \in 1..Len(archived) |->
               <<"INFO", MODULE_FILENAME, "FA001", archived[k].filename>>]

\* The archive of a.txt = "A" and b.txt = "B" with readme "R" and a log
\* that was not empty has been saved.
C15_Witness ==
  /\ RoundTripCase /\ log0 # <<>> /\ readme = "R"
  /\ Len(archived) = 2
  /\ archived[1].filename = "a.txt" /\ archived[1].data = "A"
  /\ archived[2].filename = "b.txt" /\ archived[2].data = "B"

(***************************************************************************)
(* C16.  A fetch (FileDownloader.#fetch, ImageLoader.#fetch) that has      *)
(* ended has resolved to an entry with the url and the filename of its     *)
(* request, whether it succeeded or failed; the entry has a data field     *)
(* exactly when the fetch succeeded, and no other field.                   *)
(***************************************************************************)
C16_EntryKeepsSourceAndName ==
  \A i \in 1..N :
    /\ loaders[i].state # "rejected"
    /\ fpc[i] = "done" <=> loaders[i].state = "fulfilled"
    /\ loaders[i].state = "fulfilled" =>
         /\ loaders[i].value.src = sequence[i][1]
         /\ loaders[i].value.filename = sequence[i][2]
         /\ DOMAIN loaders[i].value =
              IF FetchFailed(i) THEN {"src", "filename"}
              ELSE {"src", "filename", "data"}

\* Two different requests have ended, the first failed and the second
\* succeeded.
C16_Witness ==
  /\ N = 2 /\ sequence[1] # sequence[2]
  /\ fpc[1] = "done" /\ fpc[2] = "done"
  /\ FetchFailed(1) /\ ~FetchFailed(2)

\* The positions of the log records with one of the codes.
RecordsWith(codes) == {k \in 1..Len(log) : log[k].code \in codes}
\* The fetches that have ended with one of the events.
EndedWith(events) == {i \in 1..N : event[i] \in events}

(***************************************************************************)
(* C17.  A FileDownloader.#fetch that fails is put in one class and one    *)
(* only, that of the step that failed: network error (FD104) when fetch()  *)
(* itself failed, HTTP error (FD102) when a response came with a failure   *)
(* status, decode error (FD103) when the status was a success and the body *)
(* could not be read.  The class record follows the failure record (FD101) *)
(* of the url, and a fetch that succeeds is put in no class.               *)
(***************************************************************************)
C17_FailureClassMatchesStep ==
  kind = "file" =>
    /\ Cardinality(RecordsWith({"FD104"})) = Cardinality(EndedWith({"network"}))
    /\ Cardinality(RecordsWith({"FD102"})) = Cardinality(EndedWith({"http"}))
    /\ Cardinality(RecordsWith({"FD103"})) = Cardinality(EndedWith({"decode"}))
    /\ \A k \in RecordsWith({"FD102", "FD103", "FD104"}) :
         /\ k > 1 /\ log[k - 1].code = "FD101"
         /\ \E i \in 1..N :
              /\ log[k - 1].message = sequence[i][1]
              /\ event[i] = (IF log[k].code = "FD104" THEN "network"
                             ELSE IF log[k].code = "FD102" THEN "http"
                             ELSE "decode")
    /\ \A i \in 1..N :
         /\ event[i] = "http" => ~ResponseOk(response[i])
         /\ event[i] \in {"decode", "ok"} => ResponseOk(response[i])

\* Of two fetches of different urls, one failed in the transport and the
\* other while its body was read.
C17_Witness ==
  /\ kind = "file" /\ N = 2 /\ sequence[1] # sequence[2]
  /\ event[1] = "network" /\ event[2] = "decode"

\* The codes of the records the two #fetch functions write.
FetchCodes == {"FD001", "FD002", "FD003", "FD101", "FD102", "FD103", "FD104",
               "IL001", "IL101", "IL102"}
\* The fetches that have ended.
Ended == {i \in 1..N : fpc[i] = "done"}

(***************************************************************************)
(* C18 as stated.  Each fetch that has ended, whatever its outcome, has    *)
(* appended exactly one record to the log.                                 *)
(***************************************************************************)
C18_OneRecordPerOutcome ==
  Cardinality(RecordsWith(FetchCodes)) = Cardinality(Ended)

(***************************************************************************)
(* C18 amended.  Each FileDownloader.#fetch that has ended has appended    *)
(* exactly two records, one after the other: FD001 then the status record  *)
(* (FD002 or FD003) for a success, FD101 then the class record (FD102,     *)
(* FD103 or FD104) for a failure.  Each ImageLoader.#fetch that has ended  *)
(* has appended exactly one: IL001 for a load, IL101 for an error, IL102   *)
(* for an abort.  The records of a fetch are in the log when its entry is  *)
(* returned, and a fetch that has not ended has appended none.             *)
(***************************************************************************)
C18_RecordsPerOutcome ==
  /\ kind = "file" =>
       /\ Cardinality(RecordsWith(FetchCodes)) = 2 * Cardinality(Ended)
       /\ Cardinality(RecordsWith({"FD001"})) = Cardinality(EndedWith({"ok"}))
       /\ Cardinality(RecordsWith({"FD101"})) =
            Cardinality(EndedWith({"network", "http", "decode"}))
       /\ \A k \in RecordsWith({"FD001"}) :
            k < Len(log) /\ log[k + 1].code \in {"FD002", "FD003"}
       /\ \A k \in RecordsWith({"FD101"}) :
            k < Len(log) /\ log[k + 1].code \in {"FD102", "FD103", "FD104"}
       /\ RecordsWith({"IL001", "IL101", "IL102"}) = {}
  /\ kind = "image" =>
       /\ Cardinality(RecordsWith(FetchCodes)) = Cardinality(Ended)
       /\ Cardinality(RecordsWith({"IL001"})) = Cardinality(EndedWith({"load"}))
       /\ Cardinality(RecordsWith({"IL101"})) = Cardinality(EndedWith({"error"}))
       /\ Cardinality(RecordsWith({"IL102"})) = Cardinality(EndedWith({"abort"}))
  /\ \A i \in 1..N : loaders[i].state = "fulfilled" <=> i \in Ended

\* A file download of which one fetch has succeeded and the other failed,
\* while the batch has not returned yet.
C18_Witness ==
  /\ kind = "file" /\ N = 2 /\ batch.state = "pending"
  /\ Ended = {1, 2}
  /\ event[1] = "ok" /\ FetchFailed(2)

\* The status records (FD002, FD003) written for a given status.
StatusRecords(status) ==
  {k \in RecordsWith({"FD002", "FD003"}) : log[k].message = ToString(status)}
\* The fetches that ended well with a status other than 200.
AcceptedNot200 == {i \in EndedWith({"ok"}) : response[i] # 200}

(***************************************************************************)
(* C19 as stated.  A fetch whose response is a success with a status      *)
(* other than 200 yields an entry with a payload, and its status record    *)
(* has a lower severity than the status record of a 200 response.          *)
(***************************************************************************)
C19_Not200LowerSeverity ==
  \A i \in AcceptedNot200 :
    /\ HasData(loaders[i].value)
    /\ \A k \in StatusRecords(response[i]) : \A j \in StatusRecords(200) :
         LEVELMAP[log[k].level] < LEVELMAP[log[j].level]

(***************************************************************************)
(* C19 amended.  Such a fetch yields an entry with a payload, and its      *)
(* status record has a higher severity (WARN) than the status record of a  *)
(* 200 response (INFO).                                                    *)
(***************************************************************************)
C19_Not200HigherSeverity ==
  /\ \A i \in AcceptedNot200 :
       /\ HasData(loaders[i].value)
       /\ StatusRecords(response[i]) # {}
       /\ \A k \in StatusRecords(response[i]) :
            /\ log[k].level = "WARN"
            /\ \A j \in StatusRecords(200) :
                 LEVELMAP[log[k].level] > LEVELMAP[log[j].level]
  /\ \A i \in EndedWith({"ok"}) :
       response[i] = 200 => /\ StatusRecords(200) # {}
                            /\ \A j \in StatusRecords(200) : log[j].level = "INFO"

\* One fetch ended with status 203 and another with status 200.
C19_Witness ==
  /\ kind = "file" /\ N = 2
  /\ event = <<"ok", "ok">>
  /\ response[1] = 203 /\ response[2] = 200

(***************************************************************************)
(* C20.  ImageLoader.#fetch never rejects, and resolves with the first     *)
(* event its image fires: a load resolves to an entry with the image as    *)
(* payload, an error or an abort to an entry without payload.  Events      *)
(* that fire later leave the entry as it is, and the batch of loads never  *)
(* rejects either.                                                         *)
(***************************************************************************)
C20_ImageFetchResolvesOnce ==
  /\ batch.state # "rejected"
  /\ \A i \in 1..N :
       /\ loaders[i].state # "rejected"
       /\ fired[i] = <<>> => loaders[i].state = "pending"
       /\ fired[i] # <<>> =>
            /\ loaders[i].state = "fulfilled"
            /\ loaders[i].value =
                 IF fired[i][1] = "load"
                 THEN [src |-> sequence[i][1], filename |-> sequence[i][2],
                       data |-> <<"img", sequence[i][1]>>]
                 ELSE [src |-> sequence[i][1], filename |-> sequence[i][2]]

\* An image fired an error and then a load, another a load and then an
\* abort, and the batch has returned.
C20_Witness ==
  /\ kind = "loader" /\ N = 2 /\ batch.state = "fulfilled"
  /\ fired[1] = <<"error", "load">>
  /\ fired[2] = <<"load", "abort">>

(***************************************************************************)
(* Definitions the ImageDownloader.#encodeData claims share.               *)
(***************************************************************************)
\* #encodeData has run on the batch of an image download.
Encoded == kind = "image" /\ pc \in {"generate", "done"}
\* The positions of the batch that carry a payload, and those of them whose
\* encoding did not throw.
Loaded == {k \in 1..Len(batch.value) : HasData(batch.value[k])}
Encodable == Loaded \ encodeFailed
\* The number of positions of S up to p.
RankIn(S, p) == Cardinality({q \in S : q <= p})
\* Entry p of the batch with its image encoded to the type asked for.
EncodedEntry(p) ==
  [src |-> sequence[p][1], filename |-> sequence[p][2],
   data |-> <<"enc", sequence[p][1], type>>]

(***************************************************************************)
(* C21.  When no encoding throws, #encodeData applied to M entries with a  *)
(* payload and K without, in any order, returns exactly M entries: those   *)
(* with a payload, in their relative order, each with its payload encoded. *)
(* No entry without payload is returned.                                   *)
(***************************************************************************)
C21_EncodesLoadedEntries ==
  (Encoded /\ encodeFailed = {}) =>
     /\ Len(archived) = Cardinality(Loaded)
     /\ \A p \in Loaded : archived[RankIn(Loaded, p)] = EncodedEntry(p)
     /\ \A j \in 1..Len(archived) : HasData(archived[j])
     /\ \A p \in (1..N) \ Loaded :
          /\ ~HasData(batch.value[p])
          /\ \E k \in 1..Len(log) :
               log[k] = BuildLogEntry("WARN", MODULE_FILENAME, "ID201",
                                      sequence[p][2])

\* Two different images were loaded and encoded.
C21_Witness ==
  /\ Encoded /\ encodeFailed = {} /\ N = 2
  /\ sequence[1] # sequence[2] /\ Loaded = {1, 2}

SavedOk == {k \in 1..Len(saved) : saved[k].result.ok}
\* The content of call k is undefined or a blob without bytes.
EmptyContent(k) == ~saved[k].content.defined \/ saved[k].content.parts = <<>>
\* The object URL made by the successful call k.
UrlOf(k) == objectURLs[RankIn(SavedOk, k)]

(***************************************************************************)
(* C23.  FileSaver.save given undefined or a blob without bytes returns    *)
(* ok = false with "empty", logs one record (FS002), makes no object URL   *)
(* and triggers no save; given any other blob it returns ok = true with    *)
(* "success".                                                              *)
(***************************************************************************)
C23_EmptyContentReportsEmpty ==
  /\ \A k \in 1..Len(saved) :
       saved[k].result = IF EmptyContent(k)
                         THEN [ok |-> FALSE, message |-> "empty"]
                         ELSE [ok |-> TRUE, message |-> "success"]
  /\ Len(objectURLs) =
       Cardinality({k \in 1..Len(saved) : ~EmptyContent(k)})
  /\ Cardinality(RecordsWith({"FS002"})) =
       Cardinality({k \in 1..Len(saved) : EmptyContent(k)})

(***************************************************************************)
(* C24.  Every FileSaver.save that succeeds makes exactly one object URL   *)
(* for its content, triggers the save with it under the filename, and      *)
(* schedules one release of it after the configured delay; a save that     *)
(* does not succeed makes none.  A URL is released only by its timer, so    *)
(* at any time each URL either has its release pending or has been         *)
(* released, never both and never neither; once no timer is pending,       *)
(* every URL made has been released.                                       *)
(***************************************************************************)
C24_OneReleasePerUrl ==
  /\ Len(objectURLs) = Cardinality(SavedOk)
  /\ \A k \in SavedOk :
       /\ UrlOf(k).blob = saved[k].content
       /\ UrlOf(k).download = saved[k].filename
  /\ \A u \in 1..Len(objectURLs) :
       /\ objectURLs[u].clicked
       /\ objectURLs[u].delay = revokeTimeout
       /\ objectURLs[u].timer # objectURLs[u].revoked
  /\ (\A u \in 1..Len(objectURLs) : ~objectURLs[u].timer) =>
       \A u \in 1..Len(objectURLs) : objectURLs[u].revoked

\* Two saves succeeded and both timers have fired.
C24_Witness ==
  /\ kind = "saver" /\ SavedOk = {1, 2}
  /\ \A u \in 1..2 : objectURLs[u].revoked /\ ~objectURLs[u].timer

(***************************************************************************)
(* C25.  Two calls of FileSaver.save with the same blob (with bytes) and   *)
(* the same filename both return ok = true, "success".  Each has its own   *)
(* object URL with its own release, whether or not the URL of the first    *)
(* had been released when the second call was made, and both URLs refer    *)
(* to the blob as it was passed.                                           *)
(***************************************************************************)
C25_SavesAreIndependent ==
  \A j, k \in 1..Len(saved) :
    (/\ j < k
     /\ saved[j].content = saved[k].content
     /\ saved[j].filename = saved[k].filename
     /\ ~EmptyContent(j)) =>
       /\ saved[j].result = [ok |-> TRUE, message |-> "success"]
       /\ saved[k].result = [ok |-> TRUE, message |-> "success"]
       /\ RankIn(SavedOk, j) < RankIn(SavedOk, k)
       /\ RankIn(SavedOk, k) <= Len(objectURLs)
       /\ UrlOf(j).blob = saved[j].content
       /\ UrlOf(k).blob = saved[j].content
       /\ UrlOf(j).timer # UrlOf(j).revoked
       /\ UrlOf(k).timer # UrlOf(k).revoked

\* The same blob was saved twice under the same name; the URL of the first
\* save has been released and that of the second is still to be released.
C25_Witness ==
  /\ kind = "saver" /\ Len(saved) = 2
  /\ saved[1] = saved[2] /\ ~EmptyContent(1)
  /\ Len(objectURLs) = 2
  /\ objectURLs[1].revoked /\ objectURLs[2].timer

\* The record is the first one a fetch writes when it ends.
IsOutcomeRecord(l) == l.code \in {"FD001", "FD101", "IL001", "IL101", "IL102"}
\* The text of the log entry of the archive.
ArchivedLog ==
  (CHOOSE f \in {zipfile.zip[k] : k \in {j \in 1..Len(zipfile.zip) :
                                          zipfile.zip[j].name = RETSPY_LOG}} :
     TRUE).data

(***************************************************************************)
(* C26.  The log only grows at its end: every step of the pipeline leaves  *)
(* the records already there in place and in order, those of earlier       *)
(* calls included.  The records of the fetches are in the order in which   *)
(* the fetches ended, not in input order.  The log entry of the archive    *)
(* is the text of all the records written up to the build, in that order.  *)
(***************************************************************************)
C26_LogIsAppendOnly ==
  /\ [][/\ Len(log') >= Len(log)
        /\ SubSeq(log', 1, Len(log)) = log]_vars
  /\ [](/\ Len(log) >= Len(log0)
        /\ SubSeq(log, 1, Len(log0)) = log0
        /\ LET outcomes == SelectSeq(SubSeq(log, Len(log0) + 1, Len(log)),
                                     IsOutcomeRecord)
           IN /\ Len(outcomes) = Len(settled)
              /\ \A k \in 1..Len(settled) :
                   outcomes[k].message = sequence[settled[k]][1]
        /\ Zipped =>
             /\ RETSPY_LOG \in ZipNames(zipfile.zip)
             /\ Len(ArchivedLog) = Len(log) - (IF pc = "done" THEN 1 ELSE 0)
             /\ ArchivedLog = LogToString(SubSeq(log, 1, Len(ArchivedLog))))

\* After an earlier call had left a record in the log, the second fetch
\* of a download ended before the first and the archive was saved.
C26_Witness ==
  /\ pc = "done" /\ log0 # <<>>
  /\ N = 2 /\ sequence[1] # sequence[2]
  /\ settled = <<2, 1>>

(***************************************************************************)
(* StoreSpec: the LoggerStore of the module's logger, filled through the   *)
(* logger (and through push with a level that is none of LEVELS), and      *)
(* queried.                                                                *)
(***************************************************************************)
\* The levels pushed: those of the Logger methods, and an unknown one.
PushLevels == PatternLevels \cup {"TRACE"}
\* The identifiers asked of queryByModuleId.
QueryIds == {MODULE_FILENAME, LOGGING_FILENAME, "FS001"}
\* The codes asked of queryByErrorCode.
QueryCodes == {"FS001", "LS001", "LS102"}
\* The level specifications asked: up to MaxPairs pieces, each the text of
\* a relation-level pair or some other text.
Relations == {"<", "<=", ">", ">=", "=="}
RelationText(r) ==
  CASE r = "<" -> <<"<">> [] r = "<=" -> <<"<", "=">>
    [] r = ">" -> <<">">> [] r = ">=" -> <<">", "=">>
    [] OTHER -> <<"=", "=">>
PairTexts == {RelationText(r) \o <<l>> : r \in Relations, l \in PatternLevels}
OtherTexts == {<<"x">>, <<"=">>, <<"INFO">>, <<">", "UNKNOWN">>}
RECURSIVE Concat(_)
Concat(pieces) ==
  IF pieces = <<>> THEN <<>> ELSE Head(pieces) \o Concat(Tail(pieces))

StoreInit ==
  /\ kind = "store"
  /\ common = NoCommon /\ chain = NoChain
  /\ NoDownload
  /\ NoAnimator

\* logger.debug / info / warn / error / fatal(code, message), or
\* logger.store.push(levelId, ...) with any level.
StorePush(levelId) ==
  /\ kind = "store"
  /\ \E pushed \in {Push(log, levelId, MODULE_FILENAME, "FS001", VideoName)} :
       /\ Len(pushed) <= MaxRecords
       /\ log' = pushed
  /\ query' = NoQuery
  /\ UNCHANGED <<kind, common, chain, sequence, readme, type, log0, fpc, response, event,
                 fired, loaders, settled, batch, pc, encodeFailed, archived,
                 zipfile, content, outcome, saved, objectURLs, anVars>>

\* The caller lets go of the store the last query returned.
StoreRelease ==
  /\ kind = "store" /\ query # NoQuery
  /\ query' = NoQuery
  /\ UNCHANGED <<kind, common, chain, sequence, readme, type, log0, log, fpc, response, event,
                 fired, loaders, settled, batch, pc, encodeFailed, archived,
                 zipfile, content, outcome, saved, objectURLs, anVars>>

\* logger.store.queryByModuleId(moduleIds)
StoreQueryByModuleId(moduleIds) ==
  /\ kind = "store" /\ query = NoQuery
  /\ \E r \in {QueryByModuleId(log, moduleIds)} :
       /\ query' = [op |-> "queryByModuleId", moduleIds |-> moduleIds,
                    before |-> log, logs |-> r.logs,
                    returned |-> r.logs, shared |-> FALSE]
       /\ log' = r.store
  /\ UNCHANGED <<kind, common, chain, sequence, readme, type, log0, fpc, response, event,
                 fired, loaders, settled, batch, pc, encodeFailed, archived,
                 zipfile, content, outcome, saved, objectURLs, anVars>>

\* logger.store.queryByLevel(levelSpec)
StoreQueryByLevel(pieces) ==
  /\ kind = "store" /\ query = NoQuery
  /\ \E r \in {QueryByLevel(log, Concat(pieces))} :
       /\ Len(r.store) <= MaxRecords
       /\ query' = [op |-> "queryByLevel", levelSpec |-> Concat(pieces),
                    pieces |-> pieces, before |-> log, logs |-> r.logs,
                    returned |-> r.logs, shared |-> FALSE]
       /\ log' = r.store
  /\ UNCHANGED <<kind, common, chain, sequence, readme, type, log0, fpc, response, event,
                 fired, loaders, settled, batch, pc, encodeFailed, archived,
                 zipfile, content, outcome, saved, objectURLs, anVars>>

\* logger.store.queryByErrorCode(errorCodes)
StoreQueryByErrorCode(errorCodes) ==
  /\ kind = "store" /\ query = NoQuery
  /\ \E r \in {QueryByErrorCode(log, errorCodes)} :
       /\ query' = [op |-> "queryByErrorCode", errorCodes |-> errorCodes,
                    before |-> log, logs |-> r.logs,
                    returned |-> r.logs, shared |-> FALSE]
       /\ log' = r.store
  /\ UNCHANGED <<kind, common, chain, sequence, readme, type, log0, fpc, response, event,
                 fired, loaders, settled, batch, pc, encodeFailed, archived,
                 zipfile, content, outcome, saved, objectURLs, anVars>>

\* logger.store.queryByDate(begin, end)
StoreQueryByDate(begin, end) ==
  /\ kind = "store" /\ query = NoQuery
  /\ \E r \in {QueryByDate(log, begin, end)} :
       /\ Len(r.store) <= MaxRecords
       /\ query' = [op |-> "queryByDate", begin |-> begin, end |-> end,
                    before |-> log, logs |-> r.logs,
                    returned |-> r.logs, shared |-> r.shared]
       /\ log' = r.store
  /\ UNCHANGED <<kind, common, chain, sequence, readme, type, log0, fpc, response, event,
                 fired, loaders, settled, batch, pc, encodeFailed, archived,
                 zipfile, content, outcome, saved, objectURLs, anVars>>

\* The caller pushes a record into the store the last query returned:
\* when that store shares its array with the queried store, the record is
\* in both.
StorePushReturned(levelId) ==
  /\ kind = "store"
  /\ query.op \in {"queryByModuleId", "queryByLevel", "queryByErrorCode",
                   "queryByDate"}
  /\ query.returned = query.logs
  /\ \E pushed \in {Push(query.returned, levelId, MODULE_FILENAME, "FS002",
                          VideoName)} :
       /\ Len(pushed) <= MaxRecords
       /\ query' = [query EXCEPT !.returned = pushed]
       /\ log' = IF query.shared THEN pushed ELSE log
  /\ UNCHANGED <<kind, common, chain, sequence, readme, type, log0, fpc, response, event,
                 fired, loaders, settled, batch, pc, encodeFailed, archived,
                 zipfile, content, outcome, saved, objectURLs, anVars>>

\* logger.toString(): the text of the store queryByModuleId returns.
LoggerToString ==
  /\ kind = "store" /\ query = NoQuery
  /\ \E own \in {QueryByModuleId(log, {MODULE_FILENAME})} :
       /\ query' = [op |-> "Logger.toString", before |-> log,
                    logs |-> own.logs, text |-> LogToString(own.logs)]
       /\ log' = own.store
  /\ UNCHANGED <<kind, common, chain, sequence, readme, type, log0, fpc, response, event,
                 fired, loaders, settled, batch, pc, encodeFailed, archived,
                 zipfile, content, outcome, saved, objectURLs, anVars>>

StoreNext ==
  \/ \E levelId \in PushLevels : StorePush(levelId)
  \/ \E moduleIds \in SUBSET QueryIds \ {{}} : StoreQueryByModuleId(moduleIds)
  \/ \E pieces \in SeqsUpTo(PairTexts \cup OtherTexts, MaxPairs) :
       StoreQueryByLevel(pieces)
  \/ \E errorCodes \in SUBSET QueryCodes \ {{}} :
       StoreQueryByErrorCode(errorCodes)
  \/ \E begin, end \in {NoDate} \cup 1..MaxRecords : StoreQueryByDate(begin, end)
  \/ StorePushReturned("INFO")
  \/ LoggerToString
  \/ StoreRelease

StoreSpec == StoreInit /\ [][StoreNext]_vars

\* The records of logs that come from one of the modules, in their order.
RECURSIVE FromModules(_, _)
FromModules(logs, moduleIds) ==
  IF logs = <<>> THEN <<>>
  ELSE (IF Head(logs).module \in moduleIds THEN <<Head(logs)>> ELSE <<>>)
         \o FromModules(Tail(logs), moduleIds)

(***************************************************************************)
(* C27.  queryByModuleId(M) returns the records of the store whose module  *)
(* is in M, in their order; the queries and the text of a Logger are those *)
(* of the records of its own module.                                       *)
(***************************************************************************)
C27_QueryByModuleSelectsModule ==
  /\ query.op = "queryByModuleId" =>
       query.logs = FromModules(query.before, query.moduleIds)
  /\ query.op = "Logger.toString" =>
       /\ query.logs = FromModules(query.before, {MODULE_FILENAME})
       /\ query.text = LogToString(query.logs)

\* The rank of a level in DEBUG < INFO < WARN < ERROR < FATAL < UNKNOWN.
Severity(level) ==
  CASE level = "DEBUG" -> 1 [] level = "INFO" -> 2 [] level = "WARN" -> 3
    [] level = "ERROR" -> 4 [] level = "FATAL" -> 5 [] OTHER -> 6
\* The level satisfies the relation-level pair whose text is piece.
Satisfies(level, piece) ==
  LET ref == Severity(piece[Len(piece)])
      relation == SubSeq(piece, 1, Len(piece) - 1)
  IN CASE relation = <<"<">> -> Severity(level) < ref
       [] relation = <<"<", "=">> -> Severity(level) <= ref
       [] relation = <<">">> -> Severity(level) > ref
       [] relation = <<">", "=">> -> Severity(level) >= ref
       [] OTHER -> Severity(level) = ref
\* The records of logs whose level satisfies every pair, in their order.
RECURSIVE SatisfyingAll(_, _)
SatisfyingAll(logs, pieces) ==
  IF logs = <<>> THEN <<>>
  ELSE (IF \A k \in 1..Len(pieces) : Satisfies(Head(logs).level, pieces[k])
        THEN <<Head(logs)>> ELSE <<>>)
         \o SatisfyingAll(Tail(logs), pieces)
\* No level name of the text comes right after a relation.
NoValidPair(levelSpec) ==
  \A i \in 1..Len(levelSpec) :
    levelSpec[i] \in PatternLevels =>
      ~ \/ i >= 2 /\ levelSpec[i - 1] \in {"<", ">"}
        \/ i >= 3 /\ levelSpec[i - 1] = "=" /\ levelSpec[i - 2] \in {"<", "=", ">"}

(***************************************************************************)
(* C28.  For a level specification made of relation-level pairs,           *)
(* queryByLevel returns the records whose level satisfies every pair       *)
(* under DEBUG < INFO < WARN < ERROR < FATAL < UNKNOWN, in their order;    *)
(* for a specification with no valid pair it returns no record.            *)
(***************************************************************************)
C28_QueryByLevelSelectsRange ==
  query.op = "queryByLevel" =>
    /\ (query.pieces # <<>> /\ \A k \in 1..Len(query.pieces) :
                                 query.pieces[k] \in PairTexts)
         => query.logs = SatisfyingAll(query.before, query.pieces)
    /\ NoValidPair(query.levelSpec) => query.logs = <<>>

\* ">=INFO<FATAL" was asked of a store that holds the LS001 record (ERROR)
\* of a push with an unknown level and the UNKNOWN record of that push: the
\* first was returned.
C28_Witness ==
  /\ query.op = "queryByLevel"
  /\ query.levelSpec = <<">", "=", "INFO", "<", "FATAL">>
  /\ Len(query.before) = 2
  /\ query.before[1].level = "ERROR"
  /\ query.before[2].level = "UNKNOWN"
  /\ query.logs = <<query.before[1]>>

\* The step is a tick of the playback loop: #animate ran, called by run()
\* or by an animation frame, with the time now'.
Tick == now' # now \/ ran' # ran
\* The tick scheduled its successor (the callback that ran is consumed).
Rescheduled == raf' = IF ran THEN raf ELSE raf + 1

(***************************************************************************)
(* C29.  A tick less than one lapse after the last draw changes neither    *)
(* the frame index, nor the time of the last draw, nor the capture flags,  *)
(* and draws nothing: it only reschedules.  A tick one lapse or more after *)
(* the last draw sets the time of the last draw to the current time, draws *)
(* the current frame and advances the index by one modulo the number of    *)
(* images, however long it came after the last draw.  The index is always  *)
(* one of 0..L-1.                                                          *)
(***************************************************************************)
C29_TickDrawsWhenDue ==
  /\ [](currentImage \in 0..(Len(images) - 1))
  /\ [][Tick =>
          IF now' - lastDraw < lapse
          THEN /\ UNCHANGED <<currentImage, lastDraw, capturing, captured,
                              capture, drawLog>>
               /\ Rescheduled
          ELSE /\ lastDraw' = now'
               /\ Len(drawLog') = Len(drawLog) + 1
               /\ drawLog'[Len(drawLog')].frame = currentImage
               /\ currentImage' = (currentImage + 1) % Len(images)]_vars

(***************************************************************************)
(* C30.  With run() called once, at most one animation frame is scheduled  *)
(* at any time, so the ticks run one after the other: the frames drawn     *)
(* follow one another from frame 0 on, each tick drawing the frame after   *)
(* the one the tick before it drew.                                        *)
(***************************************************************************)
C30_OneTickPending ==
  /\ raf <= 1
  /\ ~ran => raf = 0
  /\ \A k \in 1..Len(drawLog) :
       drawLog[k].frame = (k - 1) % Len(images)

\* The loop of an Animator of two images has gone round once and drawn
\* frame 0 again; the next tick is scheduled.
C30_Witness ==
  /\ ran /\ raf = 1 /\ ~thrown
  /\ Len(images) = 2
  /\ Len(drawLog) = 3

\* The capture state of the Animator: 0 Idle, 1 Armed (doCapture called),
\* 2 Capturing (#capturing set), 3 Finished (#captured set).
CapturePhase ==
  IF captured THEN 3 ELSE IF capturing THEN 2 ELSE IF capture THEN 1 ELSE 0

(***************************************************************************)
(* C31.  The capture state never moves back, whatever doCapture calls and  *)
(* ticks follow one another; the recorder is started at most once, stopped *)
(* at most once and not before it was started, it records only between    *)
(* the two, and a doCapture call after the capture was made starts no new  *)
(* recording.                                                              *)
(***************************************************************************)
C31_CaptureOnlyMovesForward ==
  /\ [][CapturePhase' >= CapturePhase]_vars
  /\ [](/\ captured => capturing
        /\ Cardinality(BeginTicks) <= 1
        /\ Cardinality(EndTicks) <= 1
        /\ \A e \in EndTicks : \E b \in BeginTicks : b <= e
        /\ recorder.state = "recording" => (capturing /\ ~captured)
        /\ captured => recorder.state = "inactive")

\* After the capture was made doCapture was called again, and a later tick
\* has drawn frame 0 without starting anything.
C31_Witness ==
  /\ captured /\ capture
  /\ Len(requests) = 2
  /\ \E k \in 1..Len(drawLog) :
       /\ drawLog[k].frame = 0 /\ drawLog[k].asked = 2
       /\ \E e \in EndTicks : e < k /\ drawLog[e].asked = 1

\* Every image load has ended and none has given an image.
NoImageLoaded == AllSettled /\ \A i \in 1..N : FetchFailed(i)

SecondCodes(ev) ==
  CASE ev = "network" -> {"FD104"}
    [] ev = "http" -> {"FD102"}
    [] ev = "decode" -> {"FD103"}
    [] OTHER -> {"FD002", "FD003"}

(***************************************************************************)
(* C34.  Whatever the order in which concurrent fetches end, the two       *)
(* records of one outcome are next to each other in the log: the j-th      *)
(* fetch to end wrote records 2j-1 and 2j of the download, first FD101 or  *)
(* FD001 with its url, then the class or status record of that same        *)
(* outcome; no record of another fetch lies between them.                  *)
(***************************************************************************)
C34_OutcomeRecordsAdjacent ==
  kind = "file" =>
    /\ Len(log) >= Len(log0) + 2 * Len(settled)
    /\ pc = "getData" => Len(log) = Len(log0) + 2 * Len(settled)
    /\ \A j \in 1..Len(settled) :
         LET first == log[Len(log0) + 2 * j - 1]
             second == log[Len(log0) + 2 * j]
             ev == event[settled[j]]
         IN /\ first.code = (IF ev = "ok" THEN "FD001" ELSE "FD101")
            /\ first.message = sequence[settled[j]][1]
            /\ second.code \in SecondCodes(ev)

\* Two fetches of different files ran together; the second ended first, by
\* a failure, and the first then succeeded.
C34_Witness ==
  /\ kind = "file" /\ N = 2 /\ sequence[1] # sequence[2]
  /\ settled = <<2, 1>>
  /\ event[2] \in {"network", "http", "decode"} /\ event[1] = "ok"

(***************************************************************************)
(* C35.  A query leaves the records of the queried store as they were,     *)
(* whatever its argument, and the store it returns is independent of the   *)
(* queried one: as long as the caller holds the returned store, pushing    *)
(* into it included, the queried store holds the records it held before    *)
(* the query.                                                              *)
(***************************************************************************)
C35_QueriesLeaveStoreUnchanged ==
  query.op \in {"queryByDate", "queryByErrorCode", "queryByLevel",
                "queryByModuleId"}
    => log = query.before

\* The severities a record can have.
Severities == {"DEBUG", "INFO", "WARN", "ERROR", "FATAL", "UNKNOWN"}

(***************************************************************************)
(* C36.  Every record of a store, pushed from outside or written by the    *)
(* store to report its own errors, has one of the six severities.  A push  *)
(* with another level (it is the only step that adds two records: the      *)
(* LS001 report and the record) stores the record with the severity        *)
(* UNKNOWN and with the module, code and message it was pushed with.       *)
(***************************************************************************)
C36_SeverityInClosedSet ==
  /\ [](\A k \in 1..Len(log) : log[k].level \in Severities)
  /\ [](query.op \in {"queryByDate", "queryByErrorCode", "queryByLevel",
                      "queryByModuleId"}
          => \A k \in 1..Len(query.returned) :
               query.returned[k].level \in Severities)
  /\ [][(kind = "store" /\ Len(log') = Len(log) + 2) =>
          /\ log'[Len(log')] = [code |-> "FS001", level |-> "UNKNOWN",
                                message |-> VideoName,
                                module |-> MODULE_FILENAME]
          /\ SubSeq(log', 1, Len(log)) = log]_vars

\* A record was pushed with the level TRACE into a store.
C36_Witness ==
  /\ kind = "store"
  /\ Len(log) = 2
  /\ log[1].code = "LS001" /\ log[1].message = "TRACE"
  /\ log[2].level = "UNKNOWN" /\ log[2].module = MODULE_FILENAME

(***************************************************************************)
(* ZipSpec: zip(A, B) and then unzip of the result, for any two arrays of  *)
(* up to MaxLen elements.                                                  *)
(***************************************************************************)
Elements == {"a", "b"}

ZipInit ==
  /\ kind = "zip"
  /\ NoDownload /\ NoAnimator
  /\ chain = NoChain
  /\ \E A, B \in SeqsUpTo(Elements, MaxLen) :
       common = [pc |-> "given", A |-> A, B |-> B]

\* zipped = zip(A, B)
CommonZip ==
  /\ kind = "zip" /\ common.pc = "given"
  /\ common' = [pc |-> "zipped", A |-> common.A, B |-> common.B,
                zipped |-> Zip(<<common.A, common.B>>)]
  /\ UNCHANGED <<kind, chain, query, sequence, readme, type, log0, log, fpc,
                 response, event, fired, loaders, settled, batch, pc,
                 encodeFailed, archived, zipfile, content, outcome, saved,
                 objectURLs, anVars>>

\* unzipped = unzip(zipped)
CommonUnzip ==
  /\ kind = "zip" /\ common.pc = "zipped"
  /\ common' = [pc |-> "unzipped", A |-> common.A, B |-> common.B,
                zipped |-> common.zipped,
                unzipped |-> Unzip(common.zipped)]
  /\ UNCHANGED <<kind, chain, query, sequence, readme, type, log0, log, fpc,
                 response, event, fired, loaders, settled, batch, pc,
                 encodeFailed, archived, zipfile, content, outcome, saved,
                 objectURLs, anVars>>

ZipNext == CommonZip \/ CommonUnzip

ZipSpec == ZipInit /\ [][ZipNext]_vars

ScriptUrls == {"jszip.min.js", "shared.js", "simepar.js"}

\* target.loader() has returned its promise, resolved with the load
\* function: the reaction of the first step is ready.
ChainInit ==
  /\ kind = "chain"
  /\ NoDownload /\ NoAnimator
  /\ common = NoCommon
  /\ \E urls \in SeqsUpTo(ScriptUrls, MaxScripts) :
       chain = [urls |-> urls, k |-> 1, pc |-> "then", appended |-> <<>>,
                events |-> <<>>, console |-> <<>>, caught |-> <<>>]

\* The reaction of a then-step runs: (load) => load(url).  After the last
\* step the chain is fulfilled and the catch handler is passed by.
ChainThen ==
  /\ kind = "chain" /\ chain.pc = "then"
  /\ chain' = IF chain.k <= Len(chain.urls)
              THEN Load(chain, chain.urls[chain.k])
              ELSE [chain EXCEPT !.pc = "done"]
  /\ UNCHANGED <<kind, common, query, sequence, readme, type, log0, log, fpc,
                 response, event, fired, loaders, settled, batch, pc,
                 encodeFailed, archived, zipfile, content, outcome, saved,
                 objectURLs, anVars>>

\* The script appended last fires its load event.
ScriptLoad ==
  /\ kind = "chain" /\ chain.pc = "wait"
  /\ chain' = LoadListener(chain, chain.urls[chain.k])
  /\ UNCHANGED <<kind, common, query, sequence, readme, type, log0, log, fpc,
                 response, event, fired, loaders, settled, batch, pc,
                 encodeFailed, archived, zipfile, content, outcome, saved,
                 objectURLs, anVars>>

\* The script appended last fires its error event.
ScriptError ==
  /\ kind = "chain" /\ chain.pc = "wait"
  /\ chain' = ErrorListener(chain, chain.urls[chain.k])
  /\ UNCHANGED <<kind, common, query, sequence, readme, type, log0, log, fpc,
                 response, event, fired, loaders, settled, batch, pc,
                 encodeFailed, archived, zipfile, content, outcome, saved,
                 objectURLs, anVars>>

\* The reaction of the catch step runs with the rejection.
ChainCatch ==
  /\ kind = "chain" /\ chain.pc = "rejected"
  /\ chain' = CatchHandler(chain)
  /\ UNCHANGED <<kind, common, query, sequence, readme, type, log0, log, fpc,
                 response, event, fired, loaders, settled, batch, pc,
                 encodeFailed, archived, zipfile, content, outcome, saved,
                 objectURLs, anVars>>

ChainNext == ChainThen \/ ScriptLoad \/ ScriptError \/ ChainCatch

ChainSpec == ChainInit /\ [][ChainNext]_vars

\* The steps whose script fired an error.
Errors == {j \in 1..Len(chain.events) : chain.events[j] = "error"}

====
